---- MODULE Spec2Model ----
(***************************************************************************)
(* Chronoscribe relay: the WebSocket server (packages/server/src/index.ts),*)
(* its ConnectionManager (connection-manager.ts) and its LogBroadcaster    *)
(* (log-broadcaster.ts).  Node runs every event handler to completion, so  *)
(* each handler (connection, message, close, grace-window timeout) is one  *)
(* atomic action.  Connection ids and log entry ids are random UUIDs in    *)
(* the code; here a connection is named by the order in which it was       *)
(* accepted and an entry by the order in which it was created.  Wall-clock *)
(* fields (LogEntry.timestamp, Source.connectedAt) are left out.           *)
(***************************************************************************)
EXTENDS Integers, Sequences, FiniteSets, TLC

(* ------------------------------ bounds --------------------------------- *)
(* Relay specification (Spec).                                             *)
RelayConns == 3
RelayRegisters == 2
RelayLogs == 2
RelayDowns == 1
RelayTimeouts == 2
MaxBufferSize == 2
(* Registry specification (SpecRegistry).                                  *)
RegistryConns == 4
RegistryRegisters == 4
RegistryDowns == 1
RegistryTimeouts == 1
(* Name specification (SpecNames).                                         *)
NamesConns == 3
NamesRegisters == 3
NamesDowns == 1
NamesTimeouts == 1
(* Colour specification (SpecColors): enough registrations to go round     *)
(* the palette of ten once, one of them asking for a colour.               *)
ColorsConns == 2
ColorsRegisters == 12
ColorsPreferred == 1
ColorsDowns == 1
(* Snapshot specification (SpecSnapshot): more records than the buffer     *)
(* holds, and snapshots taken in between.                                  *)
SnapshotConns == 2
SnapshotRegisters == 1
SnapshotLogs == 3
SnapshotCalls == 2

(* Dashboard specification (SpecDashboard): the relay with one dashboard   *)
(* that reconnects.                                                        *)
DashboardConns == 3
DashboardRegisters == 2
DashboardLogs == 1
DashboardDowns == 1
DashboardTimeouts == 2

Conns == 1..(IF RelayConns > RegistryConns THEN RelayConns ELSE RegistryConns)

(* The producer specification (SpecProducer).  MessageBufferLimit stands   *)
(* for the 1000 of sendLog, ProducerMaxAttempts bounds the configured      *)
(* reconnectConfig.maxAttempts.                                            *)
ProducerConnects == 4
ProducerLines == 4
ProducerMaxAttempts == 2
MessageBufferLimit == 2
(* The codec specification (SpecCodec): the longest text that is cut.      *)
MaxWire == 100
(* The message handler on undecoded frames (SpecHandler).                  *)
HandlerConns == 2
HandlerFrames == 3
HandlerDowns == 1
HandlerTimeouts == 1

(* ------------------------- program constants --------------------------- *)
VERSION == "0.1.0"

SOURCE_COLORS ==
    << "#60A5FA", "#34D399", "#FBBF24", "#F87171", "#A78BFA",
       "#FB923C", "#2DD4BF", "#F472B6", "#818CF8", "#4ADE80" >>

(* A level string is a sequence of one-character strings.                  *)
DEBUG == << "D", "E", "B", "U", "G" >>
INFO  == << "I", "N", "F", "O" >>
WARN  == << "W", "A", "R", "N" >>
ERROR == << "E", "R", "R", "O", "R" >>
LogLevel == { DEBUG, INFO, WARN, ERROR }

MAX_LOG_ENTRIES == 10000

DEFAULT_RECONNECT == [ enabled |-> TRUE, maxAttempts |-> 10, baseDelayMs |-> 1000 ]

(* ------------------------------ inputs --------------------------------- *)
(* Payloads of SOURCE_REGISTER: the color field is optional and absent     *)
(* in these.                                                               *)
RelayRegisterPayloads == { [name |-> "a"] }

RegistryRegisterPayloads == { [name |-> "a"] }

(* With and without a preferred colour; the preferred one is a colour of   *)
(* the palette, so that it can be the colour of another source.            *)
ColorsRegisterPayloads ==
    { [name |-> "a"], [name |-> "a", color |-> SOURCE_COLORS[1]] }

(* A requested name may already have the form of a de-duplicated one.      *)
NamesRegisterPayloads == { [name |-> "a"], [name |-> "a-1"] }

(* Payloads of LOG: originalTimestamp is optional; it is an opaque string  *)
(* in the code and a number here so that two of them can be compared.      *)
LogPayloads ==
    { [content |-> "late", raw |-> "09:00 late", level |-> << "e", "r", "r" >>,
       originalTimestamp |-> 900],
      [content |-> "early", raw |-> "08:00 early", level |-> << "W", "r", "n" >>,
       originalTimestamp |-> 800] }

(* ------------------------------- state --------------------------------- *)
VARIABLES
    ws,               \* ws.readyState of each connection; "NONE" before accept
    isRegistered,     \* the isRegistered local of each connection's closure
    clientType,       \* the clientType local of each connection's closure
    graceTimer,       \* the setTimeout(..., 100) of each connection
    pingInterval,     \* the setInterval(..., 30000) of each connection
    clients,          \* ConnectionManager.clients, a Map in insertion order
    colorIndex,       \* ConnectionManager.colorIndex
    usedSourceNames,  \* ConnectionManager.usedSourceNames
    recentLogs,       \* LogBroadcaster.recentLogs
    bufferSize,       \* LogBroadcaster.bufferSize
    sent,             \* what ws.send was called with, per connection, in order
    processed,        \* every processLog call so far: the message and its entry
    registered,       \* every registerSource call so far: who, what, the name
    (* the producer process (cli): main and its WebSocketClient             *)
    mainState,         \* main: "start", "awaiting" (await client.connect()),
                       \*       "reading" (stdin), "exited"
    exitCode,          \* argument of process.exit, -1 while running
    wsReadyState,      \* this.ws?.readyState, "null" before the first connect
    awaited,           \* the current socket is the one of main's connect()
    welcomed,          \* a WELCOME was received on the current socket
    isConnected,       \* WebSocketClient.isConnected
    reconnectAttempts, \* WebSocketClient.reconnectAttempts
    maxAttempts,       \* reconnectConfig.maxAttempts
    messageBuffer,     \* WebSocketClient.messageBuffer
    shouldReconnect,   \* WebSocketClient.shouldReconnect
    reconnectTimer,    \* the setTimeout of attemptReconnect: "none", "pending"
    delay,             \* the delay that setTimeout was last given
    connects,          \* connect() calls so far: numbers the sockets
    produced,          \* sendLog calls so far: numbers the lines
    transmitted,       \* what this.ws.send was called with, in order
    failures,          \* sockets in a row that closed without a WELCOME
    scheduled,         \* setTimeout calls since the last WELCOME
    (* the relay's message handler on undecoded frames                      *)
    uncaught,          \* an exception left a handler of the relay
    inbound,           \* the frames given to ws.on('message'): who, what
    (* the codec on its own                                                 *)
    codecStep,         \* "idle", "message", "wire", "done"
    codecIn,           \* the message to serialize, undefined if none
    codecWire,         \* the text on the wire
    codecOut,          \* what parseMessage made of the text
    (* parseLogLevel on its own                                             *)
    levelIn,           \* the level string given to parseLogLevel
    levelOut,          \* what parseLogLevel returned, << >> before the call
    (* callers of getRecentLogs                                             *)
    snapshots,         \* the lists getRecentLogs returned, and the buffer
                       \* as it was at each call
    (* the dashboard: useLogStore and the socket of useWebSocket            *)
    storeLogs,         \* useLogStore logs
    storeSources,      \* useLogStore sources, a Map in insertion order
    wsRef,             \* wsRef.current: the relay's number of the dashboard's
                       \* socket, 0 before the first one is open
    delivered          \* messages of that socket given to ws.onmessage

relayVars == << ws, isRegistered, clientType, graceTimer, pingInterval,
                clients, colorIndex, usedSourceNames, recentLogs, bufferSize,
                sent, processed, registered >>

producerVars == << mainState, exitCode, wsReadyState, awaited, welcomed,
                   isConnected, reconnectAttempts, maxAttempts, messageBuffer,
                   shouldReconnect, reconnectTimer, delay, connects, produced,
                   transmitted, failures, scheduled >>

handlerVars == << uncaught, inbound >>

codecVars == << codecStep, codecIn, codecWire, codecOut >>

(* What the handlers of the relay leave alone.                             *)
levelVars == << levelIn, levelOut >>

dashboardVars == << storeLogs, storeSources, wsRef, delivered >>

otherVars == << producerVars, handlerVars, codecVars, levelVars, snapshots,
               dashboardVars >>

(* What the producer leaves alone.                                         *)
notProducerVars == << relayVars, handlerVars, codecVars, levelVars,
                     snapshots, dashboardVars >>

vars == << relayVars, otherVars >>

(* --------------------------- Map<string, _> ---------------------------- *)
RECURSIVE IndexOf(_, _, _)
IndexOf(cl, id, i) ==
    IF i > Len(cl) THEN 0
    ELSE IF cl[i].id = id THEN i
    ELSE IndexOf(cl, id, i + 1)

MapHas(cl, id) == IndexOf(cl, id, 1) # 0

MapGet(cl, id) == cl[IndexOf(cl, id, 1)]

(* Map.set keeps the position of a key that is already present.            *)
MapSet(cl, client) ==
    IF MapHas(cl, client.id)
    THEN [cl EXCEPT ![IndexOf(cl, client.id, 1)] = client]
    ELSE Append(cl, client)

MapDelete(cl, id) ==
    LET k == IndexOf(cl, id, 1)
    IN  IF k = 0 THEN cl
        ELSE SubSeq(cl, 1, k - 1) \o SubSeq(cl, k + 1, Len(cl))

(* ------------------------------- JSON ---------------------------------- *)
(* A JavaScript value is a record whose only field names its type; an      *)
(* object is the sequence of its properties in insertion order.            *)
null == [ null |-> TRUE ]
undefined == [ undefined |-> TRUE ]
JStr(s) == [ string |-> s ]
JNum(n) == [ number |-> n ]
JBool(b) == [ boolean |-> b ]
JArr(a) == [ array |-> a ]
JObj(m) == [ object |-> m ]
Prop(k, v) == [ k |-> k, v |-> v ]

IsNull(v) == "null" \in DOMAIN v
IsUndefined(v) == "undefined" \in DOMAIN v
IsString(v) == "string" \in DOMAIN v
IsObject(v) == "object" \in DOMAIN v

(* typeof v === 'object'                                                   *)
TypeofObject(v) == IsObject(v) \/ "array" \in DOMAIN v \/ IsNull(v)

(* key in v, for v an object or an array and key not an index.             *)
In(key, v) ==
    IsObject(v) /\ \E i \in 1..Len(v.object) : v.object[i].k = key

(* v[key]                                                                  *)
Get(v, key) ==
    IF In(key, v)
    THEN v.object[CHOOSE i \in 1..Len(v.object) : v.object[i].k = key].v
    ELSE undefined

(* A JSON text is the sequence of its tokens.                              *)
Tok(t) == [ tok |-> t ]
StrTok(s) == [ tok |-> "string", string |-> s ]
NumTok(n) == [ tok |-> "number", number |-> n ]

IsDefinedProp(p) == ~IsUndefined(p.v)

RECURSIVE JSONstringify(_)
RECURSIVE stringifyElements(_, _)
RECURSIVE stringifyMembers(_, _)

(* Array elements, comma separated; undefined is written as null.          *)
stringifyElements(a, i) ==
    IF i > Len(a) THEN << >>
    ELSE (IF i > 1 THEN << Tok(",") >> ELSE << >>)
         \o (IF IsUndefined(a[i]) THEN << Tok("null") >> ELSE JSONstringify(a[i]))
         \o stringifyElements(a, i + 1)

(* The properties m of an object, comma separated.                         *)
stringifyMembers(m, i) ==
    IF i > Len(m) THEN << >>
    ELSE (IF i > 1 THEN << Tok(",") >> ELSE << >>)
         \o << StrTok(m[i].k), Tok(":") >> \o JSONstringify(m[i].v)
         \o stringifyMembers(m, i + 1)

(* JSON.stringify: properties whose value is undefined are left out.       *)
JSONstringify(v) ==
    IF IsNull(v) THEN << Tok("null") >>
    ELSE IF IsString(v) THEN << StrTok(v.string) >>
    ELSE IF "number" \in DOMAIN v THEN << NumTok(v.number) >>
    ELSE IF "boolean" \in DOMAIN v
         THEN << Tok(IF v.boolean THEN "true" ELSE "false") >>
    ELSE IF "array" \in DOMAIN v
         THEN << Tok("[") >> \o stringifyElements(v.array, 1) \o << Tok("]") >>
    ELSE << Tok("{") >>
         \o stringifyMembers(SelectSeq(v.object, IsDefinedProp), 1)
         \o << Tok("}") >>

(* The result of parsing one value that starts at token i.                 *)
Parsed(v, next) == [ ok |-> TRUE, value |-> v, next |-> next ]
SyntaxError == [ ok |-> FALSE, value |-> undefined, next |-> 0 ]

TokAt(toks, i, t) == i <= Len(toks) /\ toks[i].tok = t

(* Setting property key of the object under construction: a repeated key   *)
(* keeps its place and takes the later value.                              *)
SetProp(m, key, v) ==
    IF \E i \in 1..Len(m) : m[i].k = key
    THEN [ i \in 1..Len(m) |-> IF m[i].k = key THEN Prop(key, v) ELSE m[i] ]
    ELSE Append(m, Prop(key, v))

RECURSIVE parseValue(_, _)
RECURSIVE parseElements(_, _, _)
RECURSIVE parseMembers(_, _, _)

parseElements(toks, i, acc) ==
    LET r == parseValue(toks, i)
    IN  IF ~r.ok THEN SyntaxError
        ELSE IF TokAt(toks, r.next, ",")
             THEN parseElements(toks, r.next + 1, Append(acc, r.value))
        ELSE IF TokAt(toks, r.next, "]")
             THEN Parsed(JArr(Append(acc, r.value)), r.next + 1)
        ELSE SyntaxError

parseMembers(toks, i, acc) ==
    IF ~(TokAt(toks, i, "string") /\ TokAt(toks, i + 1, ":")) THEN SyntaxError
    ELSE LET r == parseValue(toks, i + 2)
         IN  IF ~r.ok THEN SyntaxError
             ELSE IF TokAt(toks, r.next, ",")
                  THEN parseMembers(toks, r.next + 1,
                                    SetProp(acc, toks[i].string, r.value))
             ELSE IF TokAt(toks, r.next, "}")
                  THEN Parsed(JObj(SetProp(acc, toks[i].string, r.value)),
                              r.next + 1)
             ELSE SyntaxError

parseValue(toks, i) ==
    IF i > Len(toks) THEN SyntaxError
    ELSE IF toks[i].tok = "null" THEN Parsed(null, i + 1)
    ELSE IF toks[i].tok = "true" THEN Parsed(JBool(TRUE), i + 1)
    ELSE IF toks[i].tok = "false" THEN Parsed(JBool(FALSE), i + 1)
    ELSE IF toks[i].tok = "string" THEN Parsed(JStr(toks[i].string), i + 1)
    ELSE IF toks[i].tok = "number" THEN Parsed(JNum(toks[i].number), i + 1)
    ELSE IF toks[i].tok = "["
         THEN IF TokAt(toks, i + 1, "]") THEN Parsed(JArr(<< >>), i + 2)
              ELSE parseElements(toks, i + 1, << >>)
    ELSE IF toks[i].tok = "{"
         THEN IF TokAt(toks, i + 1, "}") THEN Parsed(JObj(<< >>), i + 2)
              ELSE parseMembers(toks, i + 1, << >>)
    ELSE SyntaxError

(* JSON.parse: the value of the whole text, or a SyntaxError thrown.       *)
JSONparse(text) ==
    LET r == parseValue(text, 1)
    IN  IF r.ok /\ r.next = Len(text) + 1
        THEN [ threw |-> FALSE, value |-> r.value ]
        ELSE [ threw |-> TRUE, value |-> undefined ]

(* ------------------------------ protocol ------------------------------- *)
isMessageType(message, type) ==
    /\ TypeofObject(message)
    /\ ~IsNull(message)
    /\ In("type", message)
    /\ Get(message, "type") = JStr(type)

parseMessage_NoCatch(data) ==
    LET p == JSONparse(data)
    IN  IF p.threw THEN p
        ELSE IF /\ TypeofObject(p.value)
                /\ ~IsNull(p.value)
                /\ In("type", p.value)
                /\ In("payload", p.value)
             THEN [ threw |-> FALSE, value |-> p.value ]
        ELSE [ threw |-> FALSE, value |-> null ]

(* parseMessage: what it returns, and whether it threw.                    *)
parseMessage(data) ==
    LET p == JSONparse(data)
    IN  IF p.threw THEN [ threw |-> FALSE, value |-> null ]
        ELSE IF /\ TypeofObject(p.value)
                /\ ~IsNull(p.value)
                /\ In("type", p.value)
                /\ In("payload", p.value)
             THEN [ threw |-> FALSE, value |-> p.value ]
        ELSE [ threw |-> FALSE, value |-> null ]

serializeMessage(message) == JSONstringify(message)

Message(type, payload) ==
    JObj(<< Prop("type", JStr(type)), Prop("payload", payload) >>)

createLogMessage_AssignsUndefined(content, raw, level, originalTimestamp) ==
    Message("LOG",
        JObj(<< Prop("content", content), Prop("raw", raw),
                Prop("level", level),
                Prop("originalTimestamp", originalTimestamp) >>))

createLogMessage(content, raw, level, originalTimestamp) ==
    Message("LOG",
        JObj(<< Prop("content", content), Prop("raw", raw),
                Prop("level", level) >>
             \o IF IsUndefined(originalTimestamp) THEN << >>
                ELSE << Prop("originalTimestamp", originalTimestamp) >>))

createSourceRegisterMessage(name, color) ==
    Message("SOURCE_REGISTER",
        JObj(<< Prop("name", name) >>
             \o IF IsUndefined(color) THEN << >>
                ELSE << Prop("color", color) >>))

createHeartbeatMessage(now) ==
    Message("HEARTBEAT", JObj(<< Prop("timestamp", now) >>))

(* parseLogLevel is not being called.                                      *)
LevelIdle ==
    /\ levelIn = << >>
    /\ levelOut = << >>

(* The dashboard before its first socket: the initial state of the store.  *)
NewDashboard ==
    /\ storeLogs = << >>
    /\ storeSources = << >>
    /\ wsRef = 0
    /\ delivered = 0

(* No text is being encoded or decoded.                                    *)
CodecIdle ==
    /\ codecStep = "idle"
    /\ codecIn = undefined
    /\ codecWire = << >>
    /\ codecOut = [ threw |-> FALSE, value |-> undefined ]

(* ------------------------- ConnectionManager --------------------------- *)
(* Mutant: the palette is not gone round again.                            *)
getNextColor_Clamped(idx) ==
    SOURCE_COLORS[IF idx < Len(SOURCE_COLORS) THEN idx + 1 ELSE Len(SOURCE_COLORS)]

getNextColor(idx) ==
    SOURCE_COLORS[(idx % Len(SOURCE_COLORS)) + 1]

RECURSIVE uniqueNameLoop(_, _, _, _)
uniqueNameLoop(used, baseName, name, counter) ==
    IF name \in used
    THEN uniqueNameLoop(used, baseName,
                        baseName \o "-" \o ToString(counter), counter + 1)
    ELSE name

(* Mutant: the requested name is taken as it is.                           *)
ensureUniqueName_AsRequested(used, baseName) == baseName

ensureUniqueName_SingleSuffix(used, baseName) ==
    IF baseName \in used THEN baseName \o "-1" ELSE baseName

ensureUniqueName(used, baseName) ==
    uniqueNameLoop(used, baseName, baseName, 1)

getClient(cl, clientId) ==
    IF MapHas(cl, clientId) THEN << MapGet(cl, clientId) >> ELSE << >>

IsSourceClient(c) == c.type = "SOURCE" /\ "source" \in DOMAIN c

getSources(cl) ==
    LET srcs == SelectSeq(cl, IsSourceClient)
    IN  [i \in 1..Len(srcs) |-> srcs[i].source]

(* Mutant: the type of the client is not looked at.                        *)
IsViewerClient_AnyType(c) == c.type \in { "VIEWER", "SOURCE" }

IsViewerClient(c) == c.type = "VIEWER"

(* Mutant: the broadcast goes to every client, sources included.          *)
getViewers_AllClients(cl) == cl

getViewers(cl) == SelectSeq(cl, IsViewerClient)

(* Mutant: the loop ends at the first viewer whose socket is not open.     *)
broadcastLoop_AbortsOnClosed(viewers, n, w, snt, message) ==
    [ c \in DOMAIN snt |->
        IF \E k \in 1..n : /\ viewers[k].id = c
                           /\ \A j \in 1..k : w[viewers[j].id] = "OPEN"
        THEN Append(snt[c], message)
        ELSE snt[c] ]

(* The for-loop of broadcastToViewers over the first n viewers.            *)
RECURSIVE broadcastLoop(_, _, _, _, _)
broadcastLoop(viewers, n, w, snt, message) ==
    IF n = 0 THEN snt
    ELSE LET before == broadcastLoop(viewers, n - 1, w, snt, message)
             id == viewers[n].id
         IN  IF w[id] = "OPEN"
             THEN [before EXCEPT ![id] = Append(@, message)]
             ELSE before

broadcastToViewers(cl, w, snt, message) ==
    broadcastLoop(getViewers(cl), Len(getViewers(cl)), w, snt, message)

sendToClient(cl, w, snt, clientId, message) ==
    IF MapHas(cl, clientId) /\ w[clientId] = "OPEN"
    THEN [snt EXCEPT ![clientId] = Append(@, message)]
    ELSE snt

(* Mutant: a viewer is entered with the type of a source.                  *)
registerViewer_AsSource(cl, clientId) ==
    MapSet(cl, [ id |-> clientId, type |-> "SOURCE",
                 source |-> [ id |-> clientId, name |-> "viewer",
                              color |-> SOURCE_COLORS[1], connected |-> TRUE ] ])

registerViewer(cl, clientId) ==
    MapSet(cl, [id |-> clientId, type |-> "VIEWER"])

(* Mutant: SOURCE_CONNECTED carries the name as it was requested.          *)
registerSource_AnnouncesRequested(cl, used, idx, w, snt, clientId, payload) ==
    LET uniqueName == ensureUniqueName(used, payload.name)
        hasColor == "color" \in DOMAIN payload
        source == [ id |-> clientId,
                    name |-> uniqueName,
                    color |-> IF hasColor THEN payload.color
                              ELSE getNextColor(idx),
                    connected |-> TRUE ]
        client == [id |-> clientId, type |-> "SOURCE", source |-> source]
        cl2 == MapSet(cl, client)
    IN  [ clients |-> cl2,
          usedSourceNames |-> used \cup {uniqueName},
          colorIndex |-> IF hasColor THEN idx ELSE idx + 1,
          sent |-> broadcastToViewers(cl2, w, snt,
                       [type |-> "SOURCE_CONNECTED",
                        payload |-> [source EXCEPT !.name = payload.name]]),
          client |-> client ]

(* registerSource: the new fields of the manager, what was sent, and the   *)
(* client it returns.  payload.color absent is preferredColor undefined.   *)
registerSource(cl, used, idx, w, snt, clientId, payload) ==
    LET uniqueName == ensureUniqueName(used, payload.name)
        hasColor == "color" \in DOMAIN payload
        source == [ id |-> clientId,
                    name |-> uniqueName,
                    color |-> IF hasColor THEN payload.color
                              ELSE getNextColor(idx),
                    connected |-> TRUE ]
        client == [id |-> clientId, type |-> "SOURCE", source |-> source]
        cl2 == MapSet(cl, client)
    IN  [ clients |-> cl2,
          usedSourceNames |-> used \cup {uniqueName},
          colorIndex |-> IF hasColor THEN idx ELSE idx + 1,
          sent |-> broadcastToViewers(cl2, w, snt,
                       [type |-> "SOURCE_CONNECTED", payload |-> source]),
          client |-> client ]

(* Mutant: the name is not deleted from usedSourceNames.                   *)
removeClient_KeepsName(cl, used, w, snt, clientId) ==
    IF ~MapHas(cl, clientId)
    THEN [clients |-> cl, usedSourceNames |-> used, sent |-> snt]
    ELSE LET client == MapGet(cl, clientId)
         IN  IF IsSourceClient(client)
             THEN [ clients |-> MapDelete(cl, clientId),
                    usedSourceNames |-> used,
                    sent |-> broadcastToViewers(cl, w, snt,
                                 [ type |-> "SOURCE_DISCONNECTED",
                                   payload |-> [ sourceId |-> clientId,
                                                 sourceName |-> client.source.name ] ]) ]
             ELSE [ clients |-> MapDelete(cl, clientId),
                    usedSourceNames |-> used,
                    sent |-> snt ]

(* Mutant: the final clients.delete(clientId) is missing.                  *)
removeClient_KeepsEntry(cl, used, w, snt, clientId) ==
    IF ~MapHas(cl, clientId)
    THEN [clients |-> cl, usedSourceNames |-> used, sent |-> snt]
    ELSE LET client == MapGet(cl, clientId)
         IN  IF IsSourceClient(client)
             THEN [ clients |-> cl,
                    usedSourceNames |-> used \ {client.source.name},
                    sent |-> broadcastToViewers(cl, w, snt,
                                 [ type |-> "SOURCE_DISCONNECTED",
                                   payload |-> [ sourceId |-> clientId,
                                                 sourceName |-> client.source.name ] ]) ]
             ELSE [ clients |-> cl,
                    usedSourceNames |-> used,
                    sent |-> snt ]

removeClient_NoNotify(cl, used, w, snt, clientId) ==
    IF ~MapHas(cl, clientId)
    THEN [clients |-> cl, usedSourceNames |-> used, sent |-> snt]
    ELSE LET client == MapGet(cl, clientId)
         IN  [ clients |-> MapDelete(cl, clientId),
               usedSourceNames |->
                   IF IsSourceClient(client)
                   THEN used \ {client.source.name} ELSE used,
               sent |-> snt ]

removeClient(cl, used, w, snt, clientId) ==
    IF ~MapHas(cl, clientId)
    THEN [clients |-> cl, usedSourceNames |-> used, sent |-> snt]
    ELSE LET client == MapGet(cl, clientId)
         IN  IF IsSourceClient(client)
             THEN [ clients |-> MapDelete(cl, clientId),
                    usedSourceNames |-> used \ {client.source.name},
                    sent |-> broadcastToViewers(cl, w, snt,
                                 [ type |-> "SOURCE_DISCONNECTED",
                                   payload |-> [ sourceId |-> clientId,
                                                 sourceName |-> client.source.name ] ]) ]
             ELSE [ clients |-> MapDelete(cl, clientId),
                    usedSourceNames |-> used,
                    sent |-> snt ]

(* --------------------------- LogBroadcaster ---------------------------- *)
toUpperChar(ch) ==
    CASE ch = "a" -> "A" [] ch = "b" -> "B" [] ch = "c" -> "C"
      [] ch = "d" -> "D" [] ch = "e" -> "E" [] ch = "f" -> "F"
      [] ch = "g" -> "G" [] ch = "h" -> "H" [] ch = "i" -> "I"
      [] ch = "j" -> "J" [] ch = "k" -> "K" [] ch = "l" -> "L"
      [] ch = "m" -> "M" [] ch = "n" -> "N" [] ch = "o" -> "O"
      [] ch = "p" -> "P" [] ch = "q" -> "Q" [] ch = "r" -> "R"
      [] ch = "s" -> "S" [] ch = "t" -> "T" [] ch = "u" -> "U"
      [] ch = "v" -> "V" [] ch = "w" -> "W" [] ch = "x" -> "X"
      [] ch = "y" -> "Y" [] ch = "z" -> "Z"
      [] OTHER -> ch

(* Mutant: the string is compared as it is written.                        *)
toUpperCase_AsWritten(s) == s

toUpperCase(s) == [i \in 1..Len(s) |-> toUpperChar(s[i])]

parseLogLevel(level) ==
    LET normalized == toUpperCase(level)
    IN  IF normalized \in LogLevel THEN normalized
        ELSE IF normalized = << "W", "A", "R", "N", "I", "N", "G" >> THEN WARN
        ELSE IF normalized = << "E", "R", "R" >> THEN ERROR
        ELSE IF normalized = << "D", "B", "G" >> THEN DEBUG
        ELSE INFO

(* The entry processLog builds; uuid stands for randomUUID().              *)
createEntry(uuid, sourceName, payload) ==
    [ id |-> uuid,
      source |-> sourceName,
      level |-> parseLogLevel(payload.level),
      content |-> payload.content,
      raw |-> payload.raw ]

(* Mutant: unshift(entry) and pop() in place of push(entry) and shift().   *)
pushRecent_Unshift(logs, size, entry) ==
    LET pushed == << entry >> \o logs
    IN  IF Len(pushed) > size THEN SubSeq(pushed, 1, Len(pushed) - 1) ELSE pushed

(* Mutant: pop() in place of shift(), the newest entry is evicted.         *)
pushRecent_EvictsNewest(logs, size, entry) ==
    LET pushed == Append(logs, entry)
    IN  IF Len(pushed) > size THEN SubSeq(pushed, 1, Len(pushed) - 1) ELSE pushed

(* recentLogs.push(entry) followed by the shift() when over bufferSize.    *)
pushRecent(logs, size, entry) ==
    LET pushed == Append(logs, entry)
    IN  IF Len(pushed) > size THEN Tail(pushed) ELSE pushed

processLog(logs, size, cl, w, snt, uuid, sourceName, payload) ==
    LET entry == createEntry(uuid, sourceName, payload)
    IN  [ recentLogs |-> pushRecent(logs, size, entry),
          sent |-> broadcastToViewers(cl, w, snt,
                       [type |-> "LOG_BROADCAST", payload |-> entry]),
          entry |-> entry ]

(* An array value is either a new array with its own elements or the very  *)
(* array object that the recentLogs field holds, which push() and shift()  *)
(* change in place.                                                        *)
NewArray(elements) == [elements |-> elements]

SameArray(field) == [field |-> field]

ElementsOf(array, logs) ==
    IF "field" \in DOMAIN array THEN logs ELSE array.elements

(* Mutant: the array itself is handed out.                                 *)
getRecentLogs_Live(logs) == SameArray("recentLogs")

(* [...this.recentLogs]                                                    *)
getRecentLogs(logs) == NewArray(logs)

(* Mutant: the newest record of the buffer is left out of the batch.       *)
sendRecentLogsToViewer_OmitsNewest(logs, cl, w, snt, clientId) ==
    sendToClient(cl, w, snt, clientId,
                 [ type |-> "LOGS_BATCH",
                   payload |-> [logs |-> IF logs = << >> THEN logs
                                         ELSE SubSeq(logs, 1, Len(logs) - 1)] ])

sendRecentLogsToViewer(logs, cl, w, snt, clientId) ==
    sendToClient(cl, w, snt, clientId,
                 [type |-> "LOGS_BATCH", payload |-> [logs |-> logs]])

(* --------------------------- WebSocketClient --------------------------- *)
RECURSIVE pow(_, _)
pow(b, n) == IF n = 0 THEN 1 ELSE b * pow(b, n - 1)

(* The fields of a new WebSocketClient, main about to call connect().      *)
NewWebSocketClient ==
    /\ mainState = "start"
    /\ exitCode = -1
    /\ wsReadyState = "null"
    /\ awaited = FALSE
    /\ welcomed = FALSE
    /\ isConnected = FALSE
    /\ reconnectAttempts = 0
    /\ messageBuffer = << >>
    /\ shouldReconnect = TRUE
    /\ reconnectTimer = "none"
    /\ delay = 0
    /\ connects = 0
    /\ produced = 0
    /\ transmitted = << >>
    /\ failures = 0
    /\ scheduled = 0

(* attemptReconnect(): exit 1 when the attempts are used up, otherwise the *)
(* delay is computed from the counter, the counter is incremented and the  *)
(* timer is set.                                                           *)
attemptReconnect(attempts, max) ==
    IF attempts >= max
    THEN [ exit |-> TRUE, reconnectAttempts |-> attempts,
           timer |-> "none", delay |-> 0 ]
    ELSE [ exit |-> FALSE, reconnectAttempts |-> attempts + 1,
           timer |-> "pending",
           delay |-> DEFAULT_RECONNECT.baseDelayMs * pow(2, attempts) ]

(* createLogMessage for the line numbered n.                               *)
LogMessageOf(n) == [ type |-> "LOG", line |-> n ]

(* this.ws.send(message) on the socket numbered conn.                      *)
wsSend(tx, conn, message) == Append(tx, [ conn |-> conn, message |-> message ])

sendLog_DropsNewest(connected, readyState, buf, tx, conn, message) ==
    IF connected /\ readyState = "OPEN"
    THEN [ messageBuffer |-> buf, transmitted |-> wsSend(tx, conn, message) ]
    ELSE [ messageBuffer |-> IF Len(buf) >= MessageBufferLimit
                             THEN buf ELSE Append(buf, message),
           transmitted |-> tx ]

(* sendLog(): transmit when connected and the socket is open, otherwise    *)
(* push and shift once the buffer is over its limit.                       *)
(* Mutant: an open socket is enough to transmit.                           *)
sendLog_IgnoresConnected(connected, readyState, buf, tx, conn, message) ==
    IF readyState = "OPEN"
    THEN [ messageBuffer |-> buf, transmitted |-> wsSend(tx, conn, message) ]
    ELSE [ messageBuffer |-> IF Len(buf) >= MessageBufferLimit
                             THEN Append(Tail(buf), message)
                             ELSE Append(buf, message),
           transmitted |-> tx ]

sendLog(connected, readyState, buf, tx, conn, message) ==
    IF connected /\ readyState = "OPEN"
    THEN [ messageBuffer |-> buf, transmitted |-> wsSend(tx, conn, message) ]
    ELSE LET pushed == Append(buf, message)
         IN  [ messageBuffer |-> IF Len(pushed) > MessageBufferLimit
                                 THEN Tail(pushed) ELSE pushed,
               transmitted |-> tx ]

RECURSIVE flushLoop(_, _, _, _, _)
flushLoop(buf, i, readyState, tx, conn) ==
    IF i > Len(buf) THEN tx
    ELSE flushLoop(buf, i + 1, readyState,
                   IF readyState = "OPEN" THEN wsSend(tx, conn, buf[i]) ELSE tx,
                   conn)

(* flushBuffer(): send what is queued, in order, then empty the queue.     *)
flushBuffer(buf, readyState, tx, conn) ==
    [ messageBuffer |-> << >>,
      transmitted |-> flushLoop(buf, 1, readyState, tx, conn) ]

(* ------------------------------ startServer ---------------------------- *)
(* Mutant: the call of sendRecentLogsToViewer is missing.                  *)
viewerHandshake_NoBacklog(cl, w, snt, logs, clientId) ==
    LET s1 == sendToClient(cl, w, snt, clientId,
                  [ type |-> "WELCOME",
                    payload |-> [ version |-> VERSION,
                                  clientId |-> clientId,
                                  clientType |-> "VIEWER" ] ])
    IN  sendToClient(cl, w, s1, clientId,
                  [ type |-> "SOURCES_LIST",
                    payload |-> [sources |-> getSources(cl)] ])

(* Mutant: the backlog is sent before the roster.                          *)
viewerHandshake_BacklogFirst(cl, w, snt, logs, clientId) ==
    LET s1 == sendToClient(cl, w, snt, clientId,
                  [ type |-> "WELCOME",
                    payload |-> [ version |-> VERSION,
                                  clientId |-> clientId,
                                  clientType |-> "VIEWER" ] ])
        s2 == sendRecentLogsToViewer(logs, cl, w, s1, clientId)
    IN  sendToClient(cl, w, s2, clientId,
                  [ type |-> "SOURCES_LIST",
                    payload |-> [sources |-> getSources(cl)] ])

(* The three sends of the grace-window callback, after registerViewer.     *)
viewerHandshake(cl, w, snt, logs, clientId) ==
    LET s1 == sendToClient(cl, w, snt, clientId,
                  [ type |-> "WELCOME",
                    payload |-> [ version |-> VERSION,
                                  clientId |-> clientId,
                                  clientType |-> "VIEWER" ] ])
        s2 == sendToClient(cl, w, s1, clientId,
                  [ type |-> "SOURCES_LIST",
                    payload |-> [sources |-> getSources(cl)] ])
    IN  sendRecentLogsToViewer(logs, cl, w, s2, clientId)

Init ==
    /\ ws = [c \in Conns |-> "NONE"]
    /\ isRegistered = [c \in Conns |-> FALSE]
    /\ clientType = [c \in Conns |-> "null"]
    /\ graceTimer = [c \in Conns |-> "none"]
    /\ pingInterval = [c \in Conns |-> "none"]
    /\ clients = << >>
    /\ colorIndex = 0
    /\ usedSourceNames = {}
    /\ recentLogs = << >>
    /\ bufferSize \in 1..MaxBufferSize
    /\ sent = [c \in Conns |-> << >>]
    /\ processed = << >>
    /\ registered = << >>
    /\ maxAttempts = DEFAULT_RECONNECT.maxAttempts
    /\ NewWebSocketClient
    /\ uncaught = FALSE
    /\ inbound = << >>
    /\ CodecIdle
    /\ LevelIdle
    /\ snapshots = << >>
    /\ NewDashboard

(* wss.on('connection'): connections are numbered in the order accepted.   *)
Connection(c) ==
    /\ UNCHANGED otherVars
    /\ ws[c] = "NONE"
    /\ \A d \in Conns : d < c => ws[d] # "NONE"
    /\ ws' = [ws EXCEPT ![c] = "OPEN"]
    /\ graceTimer' = [graceTimer EXCEPT ![c] = "pending"]
    /\ pingInterval' = [pingInterval EXCEPT ![c] = "active"]
    /\ UNCHANGED << isRegistered, clientType, clients, colorIndex,
                    usedSourceNames, recentLogs, bufferSize, sent,
                    processed, registered >>

(* The SOURCE_REGISTER branch of ws.on('message'), its payload in hand.    *)
HandleSourceRegister(c, payload) ==
    /\ LET r == registerSource(clients, usedSourceNames, colorIndex, ws, sent,
                               c, payload)
       IN  /\ clients' = r.clients
           /\ usedSourceNames' = r.usedSourceNames
           /\ colorIndex' = r.colorIndex
           /\ registered' = Append(registered,
                                   [ from |-> c, payload |-> payload,
                                     name |-> r.client.source.name ])
           /\ sent' = sendToClient(r.clients, ws, r.sent, c,
                          [ type |-> "WELCOME",
                            payload |-> [ version |-> VERSION,
                                          clientId |-> c,
                                          clientType |-> "SOURCE",
                                          color |-> r.client.source.color ] ])
    /\ isRegistered' = [isRegistered EXCEPT ![c] = TRUE]
    /\ clientType' = [clientType EXCEPT ![c] = "SOURCE"]
    /\ UNCHANGED << ws, graceTimer, pingInterval, recentLogs, bufferSize,
                    processed >>

(* ws.on('message') with a SOURCE_REGISTER message.                        *)
OnSourceRegister(c, payload) ==
    /\ UNCHANGED otherVars
    /\ ws[c] = "OPEN"
    /\ HandleSourceRegister(c, payload)

(* The LOG branch of ws.on('message') once the sender is known to be a     *)
(* source: processLog.                                                     *)
HandleLog(c, payload) ==
    /\ LET r == processLog(recentLogs, bufferSize, clients, ws, sent,
                           Len(processed) + 1,
                           getClient(clients, c)[1].source.name, payload)
       IN  /\ recentLogs' = r.recentLogs
           /\ sent' = r.sent
           /\ processed' = Append(processed,
                                  [ from |-> c, payload |-> payload,
                                    entry |-> r.entry ])
    /\ UNCHANGED << ws, isRegistered, clientType, graceTimer, pingInterval,
                    clients, colorIndex, usedSourceNames, bufferSize,
                    registered >>

(* ws.on('message') with a LOG message from a connection that is a source. *)
OnLog(c, payload) ==
    /\ UNCHANGED otherVars
    /\ ws[c] = "OPEN"
    /\ getClient(clients, c) # << >>
    /\ IsSourceClient(getClient(clients, c)[1])
    /\ HandleLog(c, payload)

(* The transport goes down: readyState leaves OPEN before 'close' is       *)
(* emitted.                                                                *)
TransportDown(c) ==
    /\ UNCHANGED otherVars
    /\ ws[c] = "OPEN"
    /\ ws' = [ws EXCEPT ![c] = "CLOSING"]
    /\ UNCHANGED << isRegistered, clientType, graceTimer, pingInterval,
                    clients, colorIndex, usedSourceNames, recentLogs,
                    bufferSize, sent, processed, registered >>

(* ws.on('close').                                                         *)
OnClose(c) ==
    /\ UNCHANGED otherVars
    /\ ws[c] = "CLOSING"
    /\ ws' = [ws EXCEPT ![c] = "CLOSED"]
    /\ pingInterval' = [pingInterval EXCEPT ![c] = "cleared"]
    /\ LET r == removeClient(clients, usedSourceNames, ws', sent, c)
       IN  /\ clients' = r.clients
           /\ usedSourceNames' = r.usedSourceNames
           /\ sent' = r.sent
    /\ UNCHANGED << isRegistered, clientType, graceTimer, colorIndex,
                    recentLogs, bufferSize, processed, registered >>

(* The callback of setTimeout(..., 100).  Nothing clears this timer.       *)
GraceTimeout(c) ==
    /\ UNCHANGED otherVars
    /\ graceTimer[c] = "pending"
    /\ graceTimer' = [graceTimer EXCEPT ![c] = "fired"]
    /\ IF ~isRegistered[c]
       THEN LET cl2 == registerViewer(clients, c)
            IN  /\ clients' = cl2
                /\ isRegistered' = [isRegistered EXCEPT ![c] = TRUE]
                /\ clientType' = [clientType EXCEPT ![c] = "VIEWER"]
                /\ sent' = viewerHandshake(cl2, ws, sent, recentLogs, c)
       ELSE UNCHANGED << clients, isRegistered, clientType, sent >>
    /\ UNCHANGED << ws, pingInterval, colorIndex, usedSourceNames, recentLogs,
                    bufferSize, processed, registered >>

(* Number of connections whose transport has gone down.                    *)
Downs == Cardinality({c \in Conns : ws[c] \in {"CLOSING", "CLOSED"}})

(* Number of grace-window timers that have fired.                          *)
Timeouts == Cardinality({c \in Conns : graceTimer[c] = "fired"})

Next ==
    \/ \E c \in 1..RelayConns : Connection(c)
    \/ \E c \in 1..RelayConns : \E p \in RelayRegisterPayloads :
           Len(registered) < RelayRegisters /\ OnSourceRegister(c, p)
    \/ \E c \in 1..RelayConns : \E p \in LogPayloads :
           Len(processed) < RelayLogs /\ OnLog(c, p)
    \/ \E c \in 1..RelayConns : Downs < RelayDowns /\ TransportDown(c)
    \/ \E c \in 1..RelayConns : OnClose(c)
    \/ \E c \in 1..RelayConns : Timeouts < RelayTimeouts /\ GraceTimeout(c)

Spec == Init /\ [][Next]_vars

(* The registry alone: sources register and disconnect, nothing is logged. *)
NextRegistry ==
    \/ \E c \in 1..RegistryConns : Connection(c)
    \/ \E c \in 1..RegistryConns : \E p \in RegistryRegisterPayloads :
           Len(registered) < RegistryRegisters /\ OnSourceRegister(c, p)
    \/ \E c \in 1..RegistryConns : Downs < RegistryDowns /\ TransportDown(c)
    \/ \E c \in 1..RegistryConns : OnClose(c)
    \/ \E c \in 1..RegistryConns :
           Timeouts < RegistryTimeouts /\ GraceTimeout(c)

SpecRegistry == Init /\ [][NextRegistry]_vars

(* The registry under requested names that collide with suffixed ones.     *)
NextNames ==
    \/ \E c \in 1..NamesConns : Connection(c)
    \/ \E c \in 1..NamesConns : \E p \in NamesRegisterPayloads :
           Len(registered) < NamesRegisters /\ OnSourceRegister(c, p)
    \/ \E c \in 1..NamesConns : Downs < NamesDowns /\ TransportDown(c)
    \/ \E c \in 1..NamesConns : OnClose(c)
    \/ \E c \in 1..NamesConns : Timeouts < NamesTimeouts /\ GraceTimeout(c)

SpecNames == Init /\ [][NextNames]_vars

(* Colour assignment: registrations with and without a preferred colour,  *)
(* and disconnects.                                                        *)
Preferred ==
    Cardinality({ i \in 1..Len(registered) : "color" \in DOMAIN registered[i].payload })

NextColors ==
    \/ \E c \in 1..ColorsConns : Connection(c)
    \/ \E c \in 1..ColorsConns : \E p \in ColorsRegisterPayloads :
           /\ Len(registered) < ColorsRegisters
           /\ "color" \in DOMAIN p => Preferred < ColorsPreferred
           /\ OnSourceRegister(c, p)
    \/ \E c \in 1..ColorsConns : Downs < ColorsDowns /\ TransportDown(c)
    \/ \E c \in 1..ColorsConns : OnClose(c)

SpecColors == Init /\ [][NextColors]_vars

(* A caller of getRecentLogs keeps the list it was given; taken is the     *)
(* buffer's content at the call.                                           *)
GetRecentLogs ==
    /\ snapshots' = Append(snapshots, [ taken |-> recentLogs,
                                        list |-> getRecentLogs(recentLogs) ])
    /\ UNCHANGED << relayVars, producerVars, handlerVars, codecVars, levelVars,
                    dashboardVars >>

NextSnapshot ==
    \/ \E c \in 1..SnapshotConns : Connection(c)
    \/ \E c \in 1..SnapshotConns : \E p \in RelayRegisterPayloads :
           Len(registered) < SnapshotRegisters /\ OnSourceRegister(c, p)
    \/ \E c \in 1..SnapshotConns : \E p \in LogPayloads :
           Len(processed) < SnapshotLogs /\ OnLog(c, p)
    \/ Len(snapshots) < SnapshotCalls /\ GetRecentLogs

SpecSnapshot == Init /\ [][NextSnapshot]_vars

(* ------------------------------ dashboard ------------------------------ *)
(* splice(0, length - MAX_LOG_ENTRIES) when over the limit.                *)
trim(newLogs) ==
    IF Len(newLogs) > MAX_LOG_ENTRIES
    THEN SubSeq(newLogs, Len(newLogs) - MAX_LOG_ENTRIES + 1, Len(newLogs))
    ELSE newLogs

addLog(stateLogs, log) == trim(Append(stateLogs, log))

addLogs(stateLogs, batch) == trim(stateLogs \o batch)

addSource(stateSources, source) == MapSet(stateSources, source)

(* Mutant: the source is deleted from the Map's connected ones only if it  *)
(* is the first.                                                           *)
removeSource_FirstOnly(stateSources, sourceId) ==
    IF stateSources # << >> /\ stateSources[1].id = sourceId
    THEN MapSet(stateSources, [stateSources[1] EXCEPT !.connected = FALSE])
    ELSE stateSources

removeSource(stateSources, sourceId) ==
    IF MapHas(stateSources, sourceId)
    THEN MapSet(stateSources,
                [MapGet(stateSources, sourceId) EXCEPT !.connected = FALSE])
    ELSE stateSources

(* new Map(sources.map((s) => [s.id, s]))                                  *)
RECURSIVE MapOf(_)
MapOf(list) ==
    IF list = << >> THEN << >>
    ELSE MapSet(MapOf(SubSeq(list, 1, Len(list) - 1)), list[Len(list)])

setSources(list) == MapOf(list)

(* App.handleMessage: the store after the message.                         *)
handleMessage(stateLogs, stateSources, message) ==
    CASE message.type = "LOG_BROADCAST" ->
            [ logs |-> addLog(stateLogs, message.payload),
              sources |-> stateSources ]
      [] message.type = "LOGS_BATCH" ->
            [ logs |-> addLogs(stateLogs, message.payload.logs),
              sources |-> stateSources ]
      [] message.type = "SOURCE_CONNECTED" ->
            [ logs |-> stateLogs,
              sources |-> addSource(stateSources, message.payload) ]
      [] message.type = "SOURCE_DISCONNECTED" ->
            [ logs |-> stateLogs,
              sources |-> removeSource(stateSources, message.payload.sourceId) ]
      [] message.type = "SOURCES_LIST" ->
            [ logs |-> stateLogs,
              sources |-> setSources(message.payload.sources) ]
      [] OTHER -> [ logs |-> stateLogs, sources |-> stateSources ]

(* ws.onopen of the socket that connect() created, which the relay         *)
(* accepted as connection c and has not yet resolved.  connect() returns   *)
(* at once while the socket in wsRef is open; the dashboard never sends    *)
(* SOURCE_REGISTER.  The store is kept from one socket to the next.        *)
DashboardOpen(c) ==
    /\ ws[c] = "OPEN"
    /\ clientType[c] = "null"
    /\ graceTimer[c] = "pending"
    /\ sent[c] = << >>
    /\ c > wsRef
    /\ wsRef # 0 => ws[wsRef] \in { "CLOSING", "CLOSED" }
    /\ \A i \in 1..Len(registered) : registered[i].from # c
    /\ wsRef' = c
    /\ delivered' = 0
    /\ UNCHANGED << storeLogs, storeSources >>
    /\ UNCHANGED << relayVars, producerVars, handlerVars, codecVars, levelVars,
                    snapshots >>

(* ws.onmessage: the next message the relay sent on the socket.            *)
DashboardOnMessage ==
    /\ wsRef # 0
    /\ delivered < Len(sent[wsRef])
    /\ delivered' = delivered + 1
    /\ LET r == handleMessage(storeLogs, storeSources, sent[wsRef][delivered + 1])
       IN  /\ storeLogs' = r.logs
           /\ storeSources' = r.sources
    /\ UNCHANGED wsRef
    /\ UNCHANGED << relayVars, producerVars, handlerVars, codecVars, levelVars,
                    snapshots >>

(* The Clear button of the filter bar: clearLogs.                          *)
ClearLogs ==
    /\ storeLogs # << >>
    /\ storeLogs' = << >>
    /\ UNCHANGED << storeSources, wsRef, delivered >>
    /\ UNCHANGED << relayVars, producerVars, handlerVars, codecVars, levelVars,
                    snapshots >>

(* Connections that are not the dashboard's register as sources.           *)
NextDashboard ==
    \/ \E c \in 1..DashboardConns : Connection(c)
    \/ \E c \in 1..DashboardConns : \E p \in RelayRegisterPayloads :
           /\ Len(registered) < DashboardRegisters
           /\ c # wsRef
           /\ OnSourceRegister(c, p)
    \/ \E c \in 1..DashboardConns : \E p \in LogPayloads :
           Len(processed) < DashboardLogs /\ OnLog(c, p)
    \/ \E c \in 1..DashboardConns : Downs < DashboardDowns /\ TransportDown(c)
    \/ \E c \in 1..DashboardConns : OnClose(c)
    \/ \E c \in 1..DashboardConns :
           Timeouts < DashboardTimeouts /\ GraceTimeout(c)
    \/ \E c \in 1..DashboardConns : DashboardOpen(c)
    \/ DashboardOnMessage
    \/ ClearLogs

SpecDashboard == Init /\ [][NextDashboard]_vars

(* --------------------- the message handler on frames ------------------- *)
(* The characters of the strings that are used as levels.                  *)
charsOf(s) ==
    CASE s = "err"  -> << "e", "r", "r" >>
      [] s = "Wrn"  -> << "W", "r", "n" >>
      [] s = "info" -> << "i", "n", "f", "o" >>

(* What data.toString() can be: well-formed messages of a producer, and    *)
(* envelopes and texts a well-behaved producer would not send.             *)
InboundFrames ==
    { serializeMessage(createSourceRegisterMessage(JStr("a"), undefined)),
      JSONstringify(Message("SOURCE_REGISTER", null)),
      serializeMessage(createLogMessage(JStr("late"), JStr("09:00 late"),
                                        JStr("err"), undefined)),
      JSONstringify(Message("LOG",
          JObj(<< Prop("content", JStr("late")),
                  Prop("raw", JStr("09:00 late")) >>))),
      JSONstringify(Message("LOG",
          JObj(<< Prop("content", JStr("late")),
                  Prop("raw", JStr("09:00 late")),
                  Prop("level", JNum(3)) >>))),
      serializeMessage(createHeartbeatMessage(JStr("2026-01-01T09:00:02.000Z"))),
      JSONstringify(Message("BOGUS", JObj(<< >>))),
      JSONstringify(JObj(<< Prop("type", JStr("LOG")) >>)),
      << Tok("text") >>,
      << Tok("{"), StrTok("type"), Tok(":") >> }

(* The branch of ws.on('message') that a parsed message takes.             *)
branchOf_UnknownAsLog(message) ==
    IF IsNull(message) THEN "invalid"
    ELSE IF isMessageType(message, "SOURCE_REGISTER") THEN "register"
    ELSE IF Get(message, "type") = JStr("HEARTBEAT") THEN "heartbeat"
    ELSE "log"

branchOf(message) ==
    IF IsNull(message) THEN "invalid"
    ELSE IF isMessageType(message, "SOURCE_REGISTER") THEN "register"
    ELSE IF isMessageType(message, "LOG") THEN "log"
    ELSE IF Get(message, "type") = JStr("HEARTBEAT") THEN "heartbeat"
    ELSE "none"

(* const { name, color } = message.payload throws a TypeError when the     *)
(* payload is null.                                                        *)
DestructuringThrows(payload) == IsNull(payload) \/ IsUndefined(payload)

(* message.payload.level.toUpperCase() throws a TypeError when the payload *)
(* is null or the level is not a string.                                   *)
ProcessLogThrows(payload) ==
    \/ IsNull(payload) \/ IsUndefined(payload)
    \/ ~IsString(Get(payload, "level"))

RegisterPayloadOf(payload) ==
    IF In("color", payload)
    THEN [ name |-> Get(payload, "name").string,
           color |-> Get(payload, "color").string ]
    ELSE [ name |-> Get(payload, "name").string ]

LogPayloadOf(payload) ==
    [ content |-> Get(payload, "content").string,
      raw |-> Get(payload, "raw").string,
      level |-> charsOf(Get(payload, "level").string) ]

(* An exception leaves the handler: nothing was changed before it.         *)
Throw ==
    /\ uncaught' = TRUE
    /\ UNCHANGED relayVars

(* ws.on('message'): the whole handler, from the bytes on.                 *)
OnMessage(c, data) ==
    /\ ~uncaught
    /\ ws[c] = "OPEN"
    /\ inbound' = Append(inbound, [ from |-> c, data |-> data ])
    /\ UNCHANGED << producerVars, codecVars, levelVars, snapshots,
                    dashboardVars >>
    /\ LET message == parseMessage(data).value
           branch == branchOf(message)
       IN  IF branch = "register"
           THEN IF DestructuringThrows(Get(message, "payload"))
                THEN Throw
                ELSE /\ HandleSourceRegister(c,
                            RegisterPayloadOf(Get(message, "payload")))
                     /\ UNCHANGED uncaught
           ELSE IF /\ branch = "log"
                   /\ getClient(clients, c) # << >>
                   /\ IsSourceClient(getClient(clients, c)[1])
           THEN IF ProcessLogThrows(Get(message, "payload"))
                THEN Throw
                ELSE /\ HandleLog(c, LogPayloadOf(Get(message, "payload")))
                     /\ UNCHANGED uncaught
           ELSE UNCHANGED << relayVars, uncaught >>

InitHandler ==
    /\ Init
    /\ bufferSize = 1

NextHandler ==
    \/ \E c \in 1..HandlerConns : ~uncaught /\ Connection(c)
    \/ \E c \in 1..HandlerConns : \E data \in InboundFrames :
           Len(inbound) < HandlerFrames /\ OnMessage(c, data)
    \/ \E c \in 1..HandlerConns :
           ~uncaught /\ Downs < HandlerDowns /\ TransportDown(c)
    \/ \E c \in 1..HandlerConns : ~uncaught /\ OnClose(c)
    \/ \E c \in 1..HandlerConns :
           ~uncaught /\ Timeouts < HandlerTimeouts /\ GraceTimeout(c)

SpecHandler == InitHandler /\ [][NextHandler]_vars

(* ------------------------------- producer ------------------------------ *)
(* The producer process alone: the relay is not started.                   *)
InitProducer ==
    /\ ws = [c \in Conns |-> "NONE"]
    /\ isRegistered = [c \in Conns |-> FALSE]
    /\ clientType = [c \in Conns |-> "null"]
    /\ graceTimer = [c \in Conns |-> "none"]
    /\ pingInterval = [c \in Conns |-> "none"]
    /\ clients = << >>
    /\ colorIndex = 0
    /\ usedSourceNames = {}
    /\ recentLogs = << >>
    /\ bufferSize = 1
    /\ sent = [c \in Conns |-> << >>]
    /\ processed = << >>
    /\ registered = << >>
    /\ maxAttempts \in 1..ProducerMaxAttempts
    /\ NewWebSocketClient
    /\ uncaught = FALSE
    /\ inbound = << >>
    /\ CodecIdle
    /\ LevelIdle
    /\ snapshots = << >>
    /\ NewDashboard

Running == exitCode = -1

(* connect(): a new socket, its handlers installed.                        *)
connect(byMain) ==
    /\ wsReadyState' = "CONNECTING"
    /\ awaited' = byMain
    /\ welcomed' = FALSE
    /\ connects' = connects + 1

(* main: await client.connect().                                           *)
MainConnect ==
    /\ Running
    /\ mainState = "start"
    /\ mainState' = "awaiting"
    /\ connect(TRUE)
    /\ UNCHANGED << exitCode, isConnected, reconnectAttempts, maxAttempts,
                    messageBuffer, shouldReconnect, reconnectTimer, delay,
                    produced, transmitted, failures, scheduled >>
    /\ UNCHANGED notProducerVars

(* The callback of attemptReconnect's setTimeout: connect() again; its     *)
(* promise is nobody's but the empty catch's.                              *)
ReconnectTimeout ==
    /\ Running
    /\ reconnectTimer = "pending"
    /\ reconnectTimer' = "none"
    /\ connect(FALSE)
    /\ UNCHANGED << mainState, exitCode, isConnected, reconnectAttempts,
                    maxAttempts, messageBuffer, shouldReconnect, delay,
                    produced, transmitted, failures, scheduled >>
    /\ UNCHANGED notProducerVars

(* ws.on('open'): the counter is reset and SOURCE_REGISTER is sent.        *)
OnOpen ==
    /\ Running
    /\ wsReadyState = "CONNECTING"
    /\ wsReadyState' = "OPEN"
    /\ reconnectAttempts' = 0
    /\ transmitted' = wsSend(transmitted, connects, [ type |-> "SOURCE_REGISTER" ])
    /\ UNCHANGED << mainState, exitCode, awaited, welcomed, isConnected,
                    maxAttempts, messageBuffer, shouldReconnect,
                    reconnectTimer, delay, connects, produced, failures,
                    scheduled >>
    /\ UNCHANGED notProducerVars

(* Mutant: ws.on('error') does not reject the promise of connect().        *)
closeHandler_NoReject(rejected) ==
    LET r == attemptReconnect(reconnectAttempts, maxAttempts)
        reconnecting == shouldReconnect /\ DEFAULT_RECONNECT.enabled
        exits == reconnecting /\ r.exit
    IN  /\ wsReadyState' = "CLOSED"
        /\ isConnected' = FALSE
        /\ failures' = IF welcomed THEN failures ELSE failures + 1
        /\ IF reconnecting
           THEN /\ reconnectAttempts' = r.reconnectAttempts
                /\ reconnectTimer' = r.timer
                /\ delay' = IF r.exit THEN delay ELSE r.delay
                /\ scheduled' = IF r.exit THEN scheduled ELSE scheduled + 1
           ELSE UNCHANGED << reconnectAttempts, reconnectTimer, delay, scheduled >>
        /\ exitCode' = IF exits THEN 1 ELSE exitCode
        /\ mainState' = IF exits THEN "exited" ELSE mainState
        /\ UNCHANGED << awaited, welcomed, maxAttempts, messageBuffer,
                        shouldReconnect, connects, produced, transmitted >>
        /\ UNCHANGED notProducerVars

(* ws.on('close'), also run after ws.on('error') when the socket could not *)
(* be opened: isConnected is cleared and attemptReconnect is called.       *)
closeHandler(rejected) ==
    LET r == attemptReconnect(reconnectAttempts, maxAttempts)
        reconnecting == shouldReconnect /\ DEFAULT_RECONNECT.enabled
        exits == \/ reconnecting /\ r.exit
                 \/ rejected /\ awaited /\ mainState = "awaiting"
    IN  /\ wsReadyState' = "CLOSED"
        /\ isConnected' = FALSE
        /\ failures' = IF welcomed THEN failures ELSE failures + 1
        /\ IF reconnecting
           THEN /\ reconnectAttempts' = r.reconnectAttempts
                /\ reconnectTimer' = r.timer
                /\ delay' = IF r.exit THEN delay ELSE r.delay
                /\ scheduled' = IF r.exit THEN scheduled ELSE scheduled + 1
           ELSE UNCHANGED << reconnectAttempts, reconnectTimer, delay, scheduled >>
        /\ exitCode' = IF exits THEN 1 ELSE exitCode
        /\ mainState' = IF exits THEN "exited" ELSE mainState
        /\ UNCHANGED << awaited, welcomed, maxAttempts, messageBuffer,
                        shouldReconnect, connects, produced, transmitted >>
        /\ UNCHANGED notProducerVars

(* The socket cannot be opened: 'error' (the promise is rejected, which    *)
(* ends main with exit code 1 when main awaits it) and then 'close'.       *)
ConnectFails ==
    /\ Running
    /\ wsReadyState = "CONNECTING"
    /\ closeHandler(TRUE)

(* The transport of an open socket starts to go down.                      *)
ProducerTransportDown ==
    /\ Running
    /\ wsReadyState = "OPEN"
    /\ wsReadyState' = "CLOSING"
    /\ UNCHANGED << mainState, exitCode, awaited, welcomed, isConnected,
                    reconnectAttempts, maxAttempts, messageBuffer,
                    shouldReconnect, reconnectTimer, delay, connects,
                    produced, transmitted, failures, scheduled >>
    /\ UNCHANGED notProducerVars

(* ws.on('close') of a socket that had been opened.                        *)
ProducerOnClose ==
    /\ Running
    /\ wsReadyState \in { "OPEN", "CLOSING" }
    /\ closeHandler(FALSE)

(* ws.on('message') with the WELCOME the relay answers SOURCE_REGISTER     *)
(* with: isConnected is set, the buffer is flushed, the promise resolved.  *)
(* A message that had arrived before the transport went down is still     *)
(* delivered while readyState is CLOSING, which is what the readyState     *)
(* test in flushBuffer's loop is about.                                    *)
OnWelcome ==
    /\ Running
    /\ wsReadyState \in { "OPEN", "CLOSING" }
    /\ ~welcomed
    /\ welcomed' = TRUE
    /\ isConnected' = TRUE
    /\ LET r == flushBuffer(messageBuffer, wsReadyState, transmitted, connects)
       IN  /\ messageBuffer' = r.messageBuffer
           /\ transmitted' = r.transmitted
    /\ mainState' = IF awaited /\ mainState = "awaiting"
                    THEN "reading" ELSE mainState
    /\ failures' = 0
    /\ scheduled' = 0
    /\ UNCHANGED << exitCode, wsReadyState, awaited, reconnectAttempts,
                    maxAttempts, shouldReconnect, reconnectTimer, delay,
                    connects, produced >>
    /\ UNCHANGED notProducerVars

(* readStdin's line callback: client.sendLog(parsed, line).                *)
SendLog ==
    /\ Running
    /\ mainState = "reading"
    /\ produced' = produced + 1
    /\ LET r == sendLog(isConnected, wsReadyState, messageBuffer, transmitted,
                        connects, LogMessageOf(produced + 1))
       IN  /\ messageBuffer' = r.messageBuffer
           /\ transmitted' = r.transmitted
    /\ UNCHANGED << mainState, exitCode, wsReadyState, awaited, welcomed,
                    isConnected, reconnectAttempts, maxAttempts,
                    shouldReconnect, reconnectTimer, delay, connects,
                    failures, scheduled >>
    /\ UNCHANGED notProducerVars

(* Mutant: client.close() is not followed by process.exit(0).              *)
StdinClosed_NoExit ==
    /\ Running
    /\ mainState = "reading"
    /\ shouldReconnect' = FALSE
    /\ wsReadyState' = "null"
    /\ mainState' = "closed"
    /\ UNCHANGED << exitCode, awaited, welcomed, isConnected, reconnectAttempts,
                    maxAttempts, messageBuffer, reconnectTimer, delay,
                    connects, produced, transmitted, failures, scheduled >>
    /\ UNCHANGED notProducerVars

(* readStdin's end callback: client.close(), process.exit(0).  close()     *)
(* sets shouldReconnect to false, closes the socket and drops it; it does  *)
(* not clear the timer of attemptReconnect.                                *)
StdinClosed ==
    /\ Running
    /\ mainState = "reading"
    /\ shouldReconnect' = FALSE
    /\ wsReadyState' = "null"
    /\ mainState' = "exited"
    /\ exitCode' = 0
    /\ UNCHANGED << awaited, welcomed, isConnected, reconnectAttempts,
                    maxAttempts, messageBuffer, reconnectTimer, delay,
                    connects, produced, transmitted, failures, scheduled >>
    /\ UNCHANGED notProducerVars

NextProducer ==
    \/ MainConnect
    \/ connects < ProducerConnects /\ ReconnectTimeout
    \/ OnOpen
    \/ ConnectFails
    \/ ProducerTransportDown
    \/ ProducerOnClose
    \/ OnWelcome
    \/ produced < ProducerLines /\ SendLog
    \/ StdinClosed

SpecProducer == InitProducer /\ [][NextProducer]_vars

(* -------------------------------- codec -------------------------------- *)
(* A Source and a LogEntry as the relay builds them.                       *)
SourceValue(id, name, color) ==
    JObj(<< Prop("id", JStr(id)), Prop("name", JStr(name)),
            Prop("color", JStr(color)), Prop("connected", JBool(TRUE)),
            Prop("connectedAt", JStr("2026-01-01T09:00:00.000Z")) >>)

EntryValue(id, content) ==
    JObj(<< Prop("id", JStr(id)),
            Prop("timestamp", JStr("2026-01-01T09:00:01.000Z")),
            Prop("source", JStr("a")), Prop("level", JStr("ERROR")),
            Prop("content", JStr(content)), Prop("raw", JStr(content)) >>)

(* Every kind of message, optional fields present and absent.              *)
CodecMessages ==
    { createSourceRegisterMessage(JStr("a"), undefined),
      createSourceRegisterMessage(JStr("a"), JStr("#FF6B6B")),
      createLogMessage(JStr("late"), JStr("09:00 late"), JStr("err"), undefined),
      createLogMessage(JStr("late"), JStr("09:00 late"), JStr("err"),
                       JStr("09:00")),
      createHeartbeatMessage(JStr("2026-01-01T09:00:02.000Z")),
      Message("WELCOME",
          JObj(<< Prop("version", JStr(VERSION)), Prop("clientId", JStr("1")),
                  Prop("clientType", JStr("SOURCE")),
                  Prop("color", JStr("#FF6B6B")) >>)),
      Message("WELCOME",
          JObj(<< Prop("version", JStr(VERSION)), Prop("clientId", JStr("2")),
                  Prop("clientType", JStr("VIEWER")) >>)),
      Message("LOG_BROADCAST", EntryValue("e1", "late")),
      Message("SOURCE_CONNECTED", SourceValue("1", "a", "#FF6B6B")),
      Message("SOURCE_DISCONNECTED",
          JObj(<< Prop("sourceId", JStr("1")), Prop("sourceName", JStr("a")) >>)),
      Message("SOURCES_LIST", JObj(<< Prop("sources", JArr(<< >>)) >>)),
      Message("SOURCES_LIST",
          JObj(<< Prop("sources",
                       JArr(<< SourceValue("1", "a", "#FF6B6B"),
                               SourceValue("3", "a-1", "#4ECDC4") >>)) >>)),
      Message("LOGS_BATCH", JObj(<< Prop("logs", JArr(<< >>)) >>)),
      Message("LOGS_BATCH",
          JObj(<< Prop("logs",
                       JArr(<< EntryValue("e1", "late"),
                               EntryValue("e2", "early") >>)) >>)),
      Message("ERROR",
          JObj(<< Prop("code", JStr("E1")), Prop("message", JStr("no")) >>)) }

(* Values that are not messages of the protocol, some of them envelopes    *)
(* all the same (a type and a payload property), most of them not.         *)
OtherValues ==
    { null, JNum(42), JBool(FALSE), JStr("LOG"),
      JArr(<< JStr("type"), JStr("payload") >>),
      JObj(<< >>),
      JObj(<< Prop("type", JStr("LOG")) >>),
      JObj(<< Prop("payload", JObj(<< >>)) >>),
      JObj(<< Prop("type", JStr("SOURCE_REGISTER")), Prop("payload", null) >>),
      JObj(<< Prop("payload", JStr("x")), Prop("type", JNum(7)),
              Prop("more", JArr(<< null >>)) >>) }

(* Texts that are no JSON at all.                                          *)
GarbageTexts ==
    { << >>,
      << Tok("text") >>,
      JSONstringify(JObj(<< Prop("type", JStr("LOG")), Prop("payload", null) >>))
          \o << Tok("}") >>,
      << Tok("{"), StrTok("type"), StrTok("LOG"), Tok("}") >>,
      << Tok("["), NumTok(1), Tok(","), Tok("]") >> }

InitCodec ==
    /\ ws = [c \in Conns |-> "NONE"]
    /\ isRegistered = [c \in Conns |-> FALSE]
    /\ clientType = [c \in Conns |-> "null"]
    /\ graceTimer = [c \in Conns |-> "none"]
    /\ pingInterval = [c \in Conns |-> "none"]
    /\ clients = << >>
    /\ colorIndex = 0
    /\ usedSourceNames = {}
    /\ recentLogs = << >>
    /\ bufferSize = 1
    /\ sent = [c \in Conns |-> << >>]
    /\ processed = << >>
    /\ registered = << >>
    /\ maxAttempts = DEFAULT_RECONNECT.maxAttempts
    /\ NewWebSocketClient
    /\ uncaught = FALSE
    /\ inbound = << >>
    /\ LevelIdle
    /\ snapshots = << >>
    /\ NewDashboard
    /\ codecOut = [ threw |-> FALSE, value |-> undefined ]
    /\ \/ /\ codecStep = "message"
          /\ codecIn \in CodecMessages
          /\ codecWire = << >>
       \/ /\ codecStep = "wire"
          /\ codecIn = undefined
          /\ codecWire \in { JSONstringify(v) : v \in OtherValues } \cup GarbageTexts

notCodecVars == << relayVars, producerVars, handlerVars, levelVars,
                  snapshots, dashboardVars >>

(* serializeMessage(message)                                               *)
Serialize ==
    /\ codecStep = "message"
    /\ codecWire' = serializeMessage(codecIn)
    /\ codecStep' = "wire"
    /\ UNCHANGED << codecIn, codecOut >>
    /\ UNCHANGED notCodecVars

(* Only the first k tokens of a serialized message arrive.                 *)
Truncate(k) ==
    /\ codecStep = "wire"
    /\ ~IsUndefined(codecIn)
    /\ k < Len(codecWire)
    /\ codecWire' = SubSeq(codecWire, 1, k)
    /\ codecIn' = undefined
    /\ UNCHANGED << codecStep, codecOut >>
    /\ UNCHANGED notCodecVars

(* parseMessage(data)                                                      *)
Parse ==
    /\ codecStep = "wire"
    /\ codecOut' = parseMessage(codecWire)
    /\ codecStep' = "done"
    /\ UNCHANGED << codecIn, codecWire >>
    /\ UNCHANGED notCodecVars

NextCodec ==
    \/ Serialize
    \/ \E k \in 0..MaxWire : Truncate(k)
    \/ Parse

SpecCodec == InitCodec /\ [][NextCodec]_vars

(* ---------------------------- parseLogLevel ---------------------------- *)
(* The relay before any connection, with the smallest replay buffer.       *)
RelayIdle ==
    /\ ws = [c \in Conns |-> "NONE"]
    /\ isRegistered = [c \in Conns |-> FALSE]
    /\ clientType = [c \in Conns |-> "null"]
    /\ graceTimer = [c \in Conns |-> "none"]
    /\ pingInterval = [c \in Conns |-> "none"]
    /\ clients = << >>
    /\ colorIndex = 0
    /\ usedSourceNames = {}
    /\ recentLogs = << >>
    /\ bufferSize = 1
    /\ sent = [c \in Conns |-> << >>]
    /\ processed = << >>
    /\ registered = << >>
    /\ uncaught = FALSE
    /\ inbound = << >>

(* The lower-case letter of an upper-case one.                             *)
LowerOf(ch) ==
    CASE ch = "A" -> "a" [] ch = "B" -> "b" [] ch = "D" -> "d"
      [] ch = "E" -> "e" [] ch = "F" -> "f" [] ch = "G" -> "g"
      [] ch = "I" -> "i" [] ch = "N" -> "n" [] ch = "O" -> "o"
      [] ch = "R" -> "r" [] ch = "U" -> "u" [] ch = "W" -> "w"

(* Every way of writing the upper-case word w in mixed case.               *)
RECURSIVE CaseVariants(_)
CaseVariants(w) ==
    IF w = << >> THEN { << >> }
    ELSE { << c >> \o t : c \in { w[1], LowerOf(w[1]) },
                          t \in CaseVariants(Tail(w)) }

WARNING == << "W", "A", "R", "N", "I", "N", "G" >>
ERR == << "E", "R", "R" >>
DBG == << "D", "B", "G" >>

(* Level strings: the names and aliases in every casing, and strings that  *)
(* are neither (the empty string, near misses, padded names, other words). *)
LevelInputs ==
    UNION { CaseVariants(w) : w \in LogLevel \cup { WARNING, ERR, DBG } }
    \cup { << >>,
           << "W", "r", "n" >>,
           << "w", "a", "r", "n", "s" >>,
           << "w", "a", "r", "n", " " >>,
           << " ", "i", "n", "f", "o" >>,
           << "e", "r", "r", "o", "r", "s" >>,
           << "e" >>,
           << "f", "a", "t", "a", "l" >>,
           << "t", "r", "a", "c", "e" >>,
           << "T", "R", "A", "C", "E" >>,
           << "v", "e", "r", "b", "o", "s", "e" >> }

InitLevel ==
    /\ RelayIdle
    /\ maxAttempts = DEFAULT_RECONNECT.maxAttempts
    /\ NewWebSocketClient
    /\ CodecIdle
    /\ snapshots = << >>
    /\ NewDashboard
    /\ levelIn \in LevelInputs
    /\ levelOut = << >>

(* parseLogLevel(level)                                                    *)
ParseLevel ==
    /\ levelOut = << >>
    /\ levelOut' = parseLogLevel(levelIn)
    /\ UNCHANGED << levelIn, relayVars, producerVars, handlerVars, codecVars,
                    snapshots, dashboardVars >>

NextLevel == ParseLevel

SpecLevel == InitLevel /\ [][NextLevel]_vars

(* ======================= properties of the relay ======================= *)
BroadcastTypes == { "LOG_BROADCAST", "SOURCE_CONNECTED", "SOURCE_DISCONNECTED" }

IsViewerWelcome(m) == m.type = "WELCOME" /\ m.payload.clientType = "VIEWER"

(* The grace-window callback promotes connection c, whose socket is open.  *)
PromotesOpen(c) ==
    /\ graceTimer[c] = "pending" /\ graceTimer'[c] = "fired"
    /\ ~isRegistered[c]
    /\ ws[c] = "OPEN"

(* The entries of every processLog call so far, in call order.             *)
Accepted == [i \in 1..Len(processed) |-> processed[i].entry]

(* Connections that registered as a source and were not yet removed by the *)
(* close handler, read off the connection closures and not the registry.   *)
ConnectedSourceIds == { c \in Conns : clientType[c] = "SOURCE" /\ ws[c] # "CLOSED" }

(* Connections that are viewers with an open socket, read off the          *)
(* connection closures and not the registry.                               *)
OpenViewerIds == { c \in Conns : clientType[c] = "VIEWER" /\ ws[c] = "OPEN" }

(* C1: on every connection, a viewer WELCOME is immediately followed by    *)
(* SOURCES_LIST and then LOGS_BATCH, these two occur nowhere else, and no  *)
(* LOG_BROADCAST, SOURCE_CONNECTED or SOURCE_DISCONNECTED precedes the     *)
(* connection's LOGS_BATCH; an open viewer's traffic starts with the three.*)
C1_ViewerHandshakeOrder ==
    \A c \in Conns :
        LET s == sent[c]
        IN  /\ \A i \in 1..Len(s) :
                  /\ IsViewerWelcome(s[i]) =>
                        /\ i + 2 <= Len(s)
                        /\ s[i + 1].type = "SOURCES_LIST"
                        /\ s[i + 2].type = "LOGS_BATCH"
                  /\ s[i].type = "SOURCES_LIST" =>
                        i > 1 /\ IsViewerWelcome(s[i - 1])
                  /\ s[i].type = "LOGS_BATCH" =>
                        i > 1 /\ s[i - 1].type = "SOURCES_LIST"
                  /\ s[i].type \in BroadcastTypes =>
                        \E j \in 1..(i - 1) : s[j].type = "LOGS_BATCH"
            /\ c \in OpenViewerIds => Len(s) >= 3 /\ IsViewerWelcome(s[1])

(* A viewer got its handshake with a non-empty backlog and then a live     *)
(* broadcast, while another connection had registered as a source.         *)
C1_Witness ==
    \E c \in Conns :
        /\ Len(sent[c]) >= 4
        /\ IsViewerWelcome(sent[c][1])
        /\ sent[c][3].type = "LOGS_BATCH"
        /\ sent[c][3].payload.logs # << >>
        /\ sent[c][4].type = "LOG_BROADCAST"
        /\ Len(registered) >= 1

(* C2: when the grace-window callback promotes an open connection after k  *)
(* <= bufferSize logs were accepted, the SOURCES_LIST it sends lists       *)
(* exactly the sources not yet removed (each once) and the LOGS_BATCH      *)
(* holds exactly the k accepted entries in arrival order.                  *)
C2_LateViewerCatchUp ==
    [][ \A c \in Conns :
          (PromotesOpen(c) /\ Len(processed) <= bufferSize) =>
             /\ Len(sent'[c]) = Len(sent[c]) + 3
             /\ LET list == sent'[c][Len(sent[c]) + 2]
                    batch == sent'[c][Len(sent[c]) + 3]
                IN  /\ list.type = "SOURCES_LIST"
                    /\ { list.payload.sources[i].id :
                           i \in 1..Len(list.payload.sources) } = ConnectedSourceIds
                    /\ Len(list.payload.sources) = Cardinality(ConnectedSourceIds)
                    /\ batch.type = "LOGS_BATCH"
                    /\ batch.payload.logs = Accepted ]_vars

(* A viewer was told of one connected source, while another source had     *)
(* already been removed, and got a backlog of two entries.                 *)
C2_Witness ==
    \E c \in Conns :
        /\ Len(sent[c]) >= 3
        /\ sent[c][2].type = "SOURCES_LIST"
        /\ Len(sent[c][2].payload.sources) = 1
        /\ \E d \in Conns :
              /\ clientType[d] = "SOURCE" /\ ws[d] = "CLOSED"
              /\ sent[c][2].payload.sources[1].id # d
              /\ \E i \in 1..Len(processed) : processed[i].from = d
        /\ sent[c][3].type = "LOGS_BATCH"
        /\ Len(sent[c][3].payload.logs) = 2
        /\ Len(processed) = 2

(* C3: a LOG message handled for a source connection creates exactly one   *)
(* entry with a fresh id, appends it to recentLogs (evicting at most the   *)
(* oldest), and sends one LOG_BROADCAST of it to each open viewer and to   *)
(* nobody else.                                                            *)
C3_OneRecordOneBroadcast ==
    [][ processed' # processed =>
          /\ Len(processed') = Len(processed) + 1
          /\ LET p == processed'[Len(processed')]
                 keep == IF Len(recentLogs) < bufferSize THEN recentLogs
                         ELSE Tail(recentLogs)
             IN  /\ clientType[p.from] = "SOURCE"
                 /\ \A i \in 1..Len(processed) : processed[i].entry.id # p.entry.id
                 /\ recentLogs' = Append(keep, p.entry)
                 /\ \A d \in Conns :
                       sent'[d] = IF d \in OpenViewerIds
                                  THEN Append(sent[d], [ type |-> "LOG_BROADCAST",
                                                         payload |-> p.entry ])
                                  ELSE sent[d] ]_vars

(* One entry, still in the buffer, reached two viewers as a broadcast.     *)
C3_Witness ==
    \E d1, d2 \in Conns : \E i \in 1..Len(recentLogs) :
        /\ d1 # d2
        /\ \E j \in 1..Len(sent[d1]) :
              sent[d1][j] = [type |-> "LOG_BROADCAST", payload |-> recentLogs[i]]
        /\ \E j \in 1..Len(sent[d2]) :
              sent[d2][j] = [type |-> "LOG_BROADCAST", payload |-> recentLogs[i]]

(* Position in the arrival order of the entry with this id.                *)
ArrivalOf(id) == CHOOSE i \in 1..Len(processed) : processed[i].entry.id = id

(* C4: recentLogs, and the LOG_BROADCASTs sent on any one connection, are  *)
(* in arrival order.                                                       *)
C4_ArrivalOrder ==
    /\ \A i, j \in 1..Len(recentLogs) :
          i < j => ArrivalOf(recentLogs[i].id) < ArrivalOf(recentLogs[j].id)
    /\ \A c \in Conns : \A i, j \in 1..Len(sent[c]) :
          (i < j /\ sent[c][i].type = "LOG_BROADCAST"
                 /\ sent[c][j].type = "LOG_BROADCAST") =>
             ArrivalOf(sent[c][i].payload.id) < ArrivalOf(sent[c][j].payload.id)

(* Two entries of different sources arrived against their original         *)
(* timestamps; both are buffered and both were broadcast to one viewer.    *)
C4_Witness ==
    /\ Len(processed) = 2
    /\ processed[1].payload.originalTimestamp > processed[2].payload.originalTimestamp
    /\ processed[1].entry.source # processed[2].entry.source
    /\ recentLogs = << processed[1].entry, processed[2].entry >>
    /\ \E c \in Conns : \E i, j \in 1..Len(sent[c]) :
          /\ i < j
          /\ sent[c][i] = [type |-> "LOG_BROADCAST", payload |-> processed[1].entry]
          /\ sent[c][j] = [type |-> "LOG_BROADCAST", payload |-> processed[2].entry]

Min(a, b) == IF a < b THEN a ELSE b

(* C5: recentLogs never holds more than bufferSize entries and always      *)
(* equals the last min(k, bufferSize) of the k accepted entries.           *)
C5_BufferIsLastN ==
    LET k == Len(processed)
        n == Min(k, bufferSize)
    IN  /\ Len(recentLogs) <= bufferSize
        /\ recentLogs = SubSeq(Accepted, k - n + 1, k)

(* More entries were accepted than the buffer holds.                       *)
C5_Witness ==
    /\ Len(processed) > bufferSize
    /\ Len(recentLogs) = bufferSize
    /\ recentLogs[Len(recentLogs)] = processed[Len(processed)].entry

(* Open viewers that the step leaves in the viewer role.                   *)
StayingOpenViewerIds == { c \in OpenViewerIds : clientType'[c] = "VIEWER" }

(* C6: whenever a step sends a broadcast message to one open viewer, the   *)
(* same message is sent to every open viewer, whatever the state of the    *)
(* other viewers' sockets; and an accepted entry is buffered whoever       *)
(* received it.                                                            *)
C6_FanOutSkipsClosed ==
    [][ /\ \A d1, d2 \in StayingOpenViewerIds :
              ( /\ Len(sent'[d1]) = Len(sent[d1]) + 1
                /\ sent'[d1][Len(sent'[d1])].type \in BroadcastTypes ) =>
                 sent'[d2] = Append(sent[d2], sent'[d1][Len(sent'[d1])])
        /\ processed' # processed =>
              /\ recentLogs'[Len(recentLogs')] = processed'[Len(processed')].entry
              /\ \A d \in OpenViewerIds :
                    sent'[d] = Append(sent[d],
                                      [ type |-> "LOG_BROADCAST",
                                        payload |-> processed'[Len(processed')].entry ])
      ]_vars

(* Two viewers are registered, the earlier one with its socket down; an    *)
(* entry accepted after both had joined reached the later one only.        *)
C6_Witness ==
    \E v1, v2 \in Conns : \E e \in 1..Len(recentLogs) :
        /\ v1 # v2
        /\ MapHas(clients, v1) /\ MapHas(clients, v2)
        /\ MapGet(clients, v1).type = "VIEWER"
        /\ MapGet(clients, v2).type = "VIEWER"
        /\ IndexOf(clients, v1, 1) < IndexOf(clients, v2, 1)
        /\ ws[v1] = "CLOSING" /\ ws[v2] = "OPEN"
        /\ Len(sent[v1]) = 3
        /\ \A k \in 1..Len(sent[v1][3].payload.logs) :
              sent[v1][3].payload.logs[k] # recentLogs[e]
        /\ Len(sent[v2]) = 4
        /\ \A k \in 1..Len(sent[v2][3].payload.logs) :
              sent[v2][3].payload.logs[k] # recentLogs[e]
        /\ sent[v2][4] = [type |-> "LOG_BROADCAST", payload |-> recentLogs[e]]

(* C7: once a connection has an entry in the registry, that entry (role,   *)
(* name, colour) stays as it is until the connection is removed.           *)
C7_RoleResolvedOnce ==
    [][ \A c \in Conns :
          (MapHas(clients, c) /\ MapHas(clients', c)) =>
             MapGet(clients', c) = MapGet(clients, c) ]_vars

(* Number of messages of a type in what was sent on a connection.          *)
CountType(c, t) == Cardinality({ i \in 1..Len(sent[c]) : sent[c][i].type = t })

CountViewerWelcome(c) ==
    Cardinality({ i \in 1..Len(sent[c]) : IsViewerWelcome(sent[c][i]) })

(* C8: no connection ever gets more than one viewer WELCOME, SOURCES_LIST  *)
(* or LOGS_BATCH, it gets all three or none, and a connection promoted by  *)
(* the grace-window callback whose socket is open has got exactly one of   *)
(* each.                                                                   *)
C8_HandshakeExactlyOnce ==
    \A c \in Conns :
        /\ CountViewerWelcome(c) <= 1
        /\ CountType(c, "SOURCES_LIST") <= 1
        /\ CountType(c, "LOGS_BATCH") <= 1
        /\ CountType(c, "SOURCES_LIST") = CountViewerWelcome(c)
        /\ CountType(c, "LOGS_BATCH") = CountViewerWelcome(c)
        /\ (graceTimer[c] = "fired" /\ clientType[c] = "VIEWER" /\ ws[c] = "OPEN") =>
              /\ CountViewerWelcome(c) = 1
              /\ CountType(c, "SOURCES_LIST") = 1
              /\ CountType(c, "LOGS_BATCH") = 1

(* A connection that never registered was promoted, got the handshake and  *)
(* later traffic.                                                          *)
C8_Witness ==
    \E c \in Conns :
        /\ graceTimer[c] = "fired" /\ clientType[c] = "VIEWER" /\ ws[c] = "OPEN"
        /\ \A i \in 1..Len(registered) : registered[i].from # c
        /\ Len(sent[c]) >= 5
        /\ CountType(c, "LOGS_BATCH") = 1

(* C9: a connection whose close handler has run has no entry in the        *)
(* registry and is neither among the viewers nor among the sources.        *)
C9_ClosedConnectionForgotten ==
    \A c \in Conns :
        ws[c] = "CLOSED" =>
           /\ getClient(clients, c) = << >>
           /\ \A i \in 1..Len(getViewers(clients)) : getViewers(clients)[i].id # c
           /\ \A i \in 1..Len(getSources(clients)) : getSources(clients)[i].id # c

(* ====================== properties of the registry ===================== *)
FromDistinct(r) == \A i, j \in 1..Len(r) : i # j => r[i].from # r[j].from

AllRequest(r, n) == \A i \in 1..Len(r) : r[i].payload.name = n

NamesOf(r) == [i \in 1..Len(r) |-> r[i].name]

ListedNames(cl) == { getSources(cl)[i].name : i \in 1..Len(getSources(cl)) }

(* C10: three registrations of the name a from three connections, none of  *)
(* them removed, are given a, a-1, a-2, all listed by getSources; when     *)
(* exactly one of the three has been removed, a fourth connection asking   *)
(* for a is given the name of the removed one.                             *)
C10_SuffixesAndReuse ==
    [][ Len(registered') = Len(registered) + 1 =>
          /\ ( /\ Len(registered') = 3
               /\ FromDistinct(registered')
               /\ AllRequest(registered', "a")
               /\ \A i \in 1..3 : ws[registered'[i].from] # "CLOSED" ) =>
                  /\ NamesOf(registered') = << "a", "a-1", "a-2" >>
                  /\ { "a", "a-1", "a-2" } \subseteq ListedNames(clients')
          /\ ( /\ Len(registered') = 4
               /\ FromDistinct(registered')
               /\ AllRequest(registered', "a")
               /\ NamesOf(registered) = << "a", "a-1", "a-2" >>
               /\ Cardinality({ i \in 1..3 : ws[registered[i].from] = "CLOSED" }) = 1 ) =>
                  \A i \in 1..3 :
                     ws[registered[i].from] = "CLOSED" =>
                        /\ registered'[4].name = registered[i].name
                        /\ registered[i].name \in ListedNames(clients')
      ]_vars

(* The source named a-1 was removed and the fourth registration got a-1.   *)
C10_Witness ==
    /\ Len(registered) = 4
    /\ FromDistinct(registered)
    /\ AllRequest(registered, "a")
    /\ NamesOf(registered) = << "a", "a-1", "a-2", "a-1" >>
    /\ ws[registered[2].from] = "CLOSED"
    /\ ListedNames(clients) = { "a", "a-1", "a-2" }

(* The last registration made on connection c, as an index of registered, *)
(* or 0 when c never registered.                                           *)
LastRegistrationOf(c) ==
    IF \E i \in 1..Len(registered) : registered[i].from = c
    THEN CHOOSE i \in 1..Len(registered) :
            /\ registered[i].from = c
            /\ \A j \in (i + 1)..Len(registered) : registered[j].from # c
    ELSE 0

(* C11: the sources currently registered have pairwise distinct names,     *)
(* whatever names were requested (a requested name may itself look like a  *)
(* suffixed one), and no registration is rejected: a connection that       *)
(* registered and is not yet removed is listed under the name it was given.*)
C11_DistinctNames ==
    /\ \A i, j \in 1..Len(getSources(clients)) :
          i # j => getSources(clients)[i].name # getSources(clients)[j].name
    /\ \A c \in Conns :
          (LastRegistrationOf(c) # 0 /\ ws[c] # "CLOSED") =>
             \E i \in 1..Len(getSources(clients)) :
                /\ getSources(clients)[i].id = c
                /\ getSources(clients)[i].name =
                      registered[LastRegistrationOf(c)].name

(* a-1 was requested first and granted; the second request for a then      *)
(* finds both a and a-1 taken and is given a-2; all three are listed.      *)
C11_Witness ==
    /\ Len(registered) = 3
    /\ FromDistinct(registered)
    /\ [i \in 1..3 |-> registered[i].payload.name] = << "a-1", "a", "a" >>
    /\ NamesOf(registered) = << "a-1", "a", "a-2" >>
    /\ ListedNames(clients) = { "a-1", "a", "a-2" }
    /\ Len(getSources(clients)) = 3

(* The entries of every connection other than c are the same in both maps. *)
SameExcept(cl1, cl2, c) ==
    \A d \in Conns \ {c} :
       /\ MapHas(cl1, d) <=> MapHas(cl2, d)
       /\ MapHas(cl1, d) => MapGet(cl1, d) = MapGet(cl2, d)

(* C12: the close handler's removeClient, on a source, takes the source's  *)
(* name out of the name set, appends exactly one SOURCE_DISCONNECTED with  *)
(* the source's id and name to every viewer with an open socket and to     *)
(* nobody else, and deletes the entry; on a viewer it only deletes the     *)
(* entry; on an id that has no entry it changes nothing and sends nothing; *)
(* removing the same id once more changes nothing and sends nothing.       *)
C12_RemoveConnection ==
    [][ \A c \in Conns :
          (ws[c] = "CLOSING" /\ ws'[c] = "CLOSED") =>
             /\ ~MapHas(clients', c)
             /\ SameExcept(clients, clients', c)
             /\ IF MapHas(clients, c) /\ IsSourceClient(MapGet(clients, c))
                THEN LET name == MapGet(clients, c).source.name
                     IN  /\ usedSourceNames' = usedSourceNames \ {name}
                         /\ \A v \in Conns :
                               sent'[v] =
                                 IF v \in OpenViewerIds /\ MapHas(clients, v)
                                 THEN Append(sent[v],
                                        [ type |-> "SOURCE_DISCONNECTED",
                                          payload |-> [ sourceId |-> c,
                                                        sourceName |-> name ] ])
                                 ELSE sent[v]
                ELSE /\ usedSourceNames' = usedSourceNames
                     /\ sent' = sent
             /\ LET again == removeClient(clients', usedSourceNames', ws',
                                          sent', c)
                IN  /\ again.clients = clients'
                    /\ again.usedSourceNames = usedSourceNames'
                    /\ again.sent = sent'
      ]_vars

(* A source was removed while a viewer was watching: the viewer holds one  *)
(* SOURCE_DISCONNECTED naming it, its entry is gone and its name is free.  *)
C12_Witness ==
    \E c, v \in Conns :
       /\ ws[c] = "CLOSED" /\ clientType[c] = "SOURCE" /\ ~MapHas(clients, c)
       /\ v \in OpenViewerIds
       /\ \E i \in 1..Len(registered) :
             /\ registered[i].from = c
             /\ registered[i].name \notin usedSourceNames
             /\ Cardinality({ k \in 1..Len(sent[v]) :
                    sent[v][k] = [ type |-> "SOURCE_DISCONNECTED",
                                   payload |-> [ sourceId |-> c,
                                      sourceName |-> registered[i].name ] ] }) = 1

(* ====================== properties of the producer ===================== *)
Ready == isConnected /\ wsReadyState = "OPEN"

LastN(seq, n) ==
    IF Len(seq) <= n THEN seq ELSE SubSeq(seq, Len(seq) - n + 1, Len(seq))

(* The lines of the LOG messages handed to the transport, in order.        *)
IsLog(t) == t.message.type = "LOG"

LinesOf(tx) ==
    LET logs == SelectSeq(tx, IsLog)
    IN  [i \in 1..Len(logs) |-> logs[i].message.line]

BufferedLines(buf) == [i \in 1..Len(buf) |-> buf[i].line]

(* C13: the send buffer never holds more than MessageBufferLimit lines; a  *)
(* line sent while the session is not Ready is queued behind the others,   *)
(* the oldest one leaving when the limit is passed, and is not             *)
(* transmitted; when the session becomes Ready the queued lines are        *)
(* transmitted in their order on the current socket and the queue is empty.*)
C13_BoundedSendBuffer ==
    [][ /\ Len(messageBuffer') <= MessageBufferLimit
        /\ (produced' = produced + 1 /\ ~Ready) =>
              /\ BufferedLines(messageBuffer') =
                    LastN(Append(BufferedLines(messageBuffer), produced'),
                          MessageBufferLimit)
              /\ transmitted' = transmitted
        /\ (~Ready /\ Ready') =>
              /\ messageBuffer' = << >>
              /\ LinesOf(transmitted') =
                    LinesOf(transmitted) \o BufferedLines(messageBuffer)
              /\ \A i \in (Len(transmitted) + 1)..Len(transmitted') :
                    transmitted'[i].conn = connects
      ]_vars

(* Two lines more than the limit were sent while the session was down; the *)
(* session is Ready again and exactly the last MessageBufferLimit of them  *)
(* were transmitted, in order, on the new socket.                          *)
C13_Witness ==
    /\ Ready
    /\ connects = 2
    /\ produced = MessageBufferLimit + 2
    /\ messageBuffer = << >>
    /\ LinesOf(transmitted) =
          [i \in 1..MessageBufferLimit |-> i + 2]
    /\ \A i \in 1..Len(transmitted) :
          IsLog(transmitted[i]) => transmitted[i].conn = 2

(* C14: the producer does not retry forever: once more than maxAttempts   *)
(* sockets in a row have closed without a WELCOME (whether they could not  *)
(* be opened or were opened and closed), the process has exited with       *)
(* code 1.                                                                 *)
C14_GivesUp ==
    failures > maxAttempts => exitCode = 1

(* C15: the reconnect attempt counter is reset to 0 when a WELCOME is      *)
(* received on the current socket, and by nothing else: a step that takes  *)
(* the counter from a positive value to 0 is the receipt of a WELCOME.     *)
C15_ResetOnWelcomeOnly ==
    [][ /\ (~welcomed /\ welcomed') => reconnectAttempts' = 0
        /\ (reconnectAttempts # 0 /\ reconnectAttempts' = 0) =>
              (~welcomed /\ welcomed')
      ]_vars

(* C16: the delay given to the k-th reconnection timer set since the last  *)
(* WELCOME (or since the start) is baseDelayMs * 2^(k-1): baseDelayMs,     *)
(* 2*baseDelayMs, 4*baseDelayMs, ...                                       *)
C16_ExponentialBackoff ==
    reconnectTimer = "pending" =>
       delay = DEFAULT_RECONNECT.baseDelayMs * pow(2, scheduled - 1)

(* ======================= properties of the codec ======================= *)
(* The values whose JSON texts the codec is given.                         *)
KnownValues == CodecMessages \cup OtherValues

(* v is an object that has a type and a payload property.                  *)
IsEnvelope(v) ==
    /\ IsObject(v)
    /\ \E i \in 1..Len(v.object) : v.object[i].k = "type"
    /\ \E i \in 1..Len(v.object) : v.object[i].k = "payload"

(* C19: parseMessage never throws; it returns a message exactly when the   *)
(* text is the JSON text of an object with both a type and a payload       *)
(* property, and then it returns that object; for every other text         *)
(* (no JSON, cut short, not an object, type or payload lacking) it         *)
(* returns null.                                                           *)
C19_DecodeTotal ==
    codecStep = "done" =>
       /\ ~codecOut.threw
       /\ \A v \in KnownValues :
             (codecWire = JSONstringify(v) /\ IsEnvelope(v)) =>
                codecOut.value = v
       /\ ~(\E v \in KnownValues :
               codecWire = JSONstringify(v) /\ IsEnvelope(v)) =>
                codecOut.value = null

(* A message cut after its second token was decoded to null.               *)
C19_Witness ==
    /\ codecStep = "done"
    /\ codecWire = << Tok("{"), StrTok("type") >>
    /\ codecOut = [ threw |-> FALSE, value |-> null ]

(* C20: a message that was serialized and parsed back is the message.      *)
C20_RoundTrip ==
    (codecStep = "done" /\ ~IsUndefined(codecIn)) =>
       /\ ~codecOut.threw
       /\ codecOut.value = codecIn

(* A LOG message without originalTimestamp came back as it was.            *)
C20_Witness ==
    /\ codecStep = "done"
    /\ isMessageType(codecIn, "LOG")
    /\ ~In("originalTimestamp", Get(codecIn, "payload"))
    /\ codecOut.value = codecIn
    /\ Len(codecWire) > 0

(* =================== properties of the message handler ================= *)
(* C17: no exception leaves the relay's message handler, whatever          *)
(* decodable envelope it is given (a SOURCE_REGISTER whose payload is      *)
(* null, a LOG whose level is missing or not a string included).           *)
C17_HandlerNeverThrows ==
    uncaught = FALSE

(* The types the relay's handler has a branch for.                         *)
RecognizedTypes == { JStr("SOURCE_REGISTER"), JStr("LOG"), JStr("HEARTBEAT") }

(* The text is no envelope, or is one of a type the relay does not know.   *)
Ignorable(data) ==
    \/ parseMessage(data).value = null
    \/ Get(parseMessage(data).value, "type") \notin RecognizedTypes

(* C18: a frame that fails to decode, or decodes to a type the relay does  *)
(* not recognize, leaves the registry, the name set, the colour counter,   *)
(* the replay buffer and the roles as they were, sends nothing, raises     *)
(* nothing and leaves the connection open.                                 *)
C18_IgnoredFrame ==
    [][ ( /\ Len(inbound') = Len(inbound) + 1
          /\ Ignorable(inbound'[Len(inbound')].data) ) =>
            /\ clients' = clients
            /\ usedSourceNames' = usedSourceNames
            /\ colorIndex' = colorIndex
            /\ recentLogs' = recentLogs
            /\ isRegistered' = isRegistered
            /\ clientType' = clientType
            /\ sent' = sent
            /\ ws' = ws
            /\ uncaught' = uncaught
      ]_vars

(* A registered source sent an envelope of unknown type after its          *)
(* registration, with a viewer connected: it is still the open source it   *)
(* was and nobody was sent anything more than the handshakes.              *)
C18_Witness ==
    \E c, v \in 1..HandlerConns :
       /\ Len(inbound) = 2
       /\ inbound[1] = [ from |-> c, data |->
             serializeMessage(createSourceRegisterMessage(JStr("a"), undefined)) ]
       /\ inbound[2] = [ from |-> c, data |->
             JSONstringify(Message("BOGUS", JObj(<< >>))) ]
       /\ ws[c] = "OPEN" /\ clientType[c] = "SOURCE"
       /\ MapHas(clients, c) /\ IsSourceClient(MapGet(clients, c))
       /\ Len(sent[c]) = 1
       /\ v \in OpenViewerIds
       /\ ~uncaught

(* ===================== properties of parseLogLevel ===================== *)
(* s is the upper-case word w, written in any casing.                      *)
EqualIgnoringCase(s, w) ==
    /\ Len(s) = Len(w)
    /\ \A i \in 1..Len(w) : s[i] = w[i] \/ s[i] = LowerOf(w[i])

(* C21: a level string that equals DEBUG, INFO, WARN or ERROR ignoring     *)
(* case is normalized to that level, WARNING to WARN, ERR to ERROR, DBG    *)
(* to DEBUG, each in any casing, and every other string to INFO.           *)
C21_LevelNormalization ==
    levelOut # << >> =>
       levelOut =
          IF \E l \in LogLevel : EqualIgnoringCase(levelIn, l)
          THEN CHOOSE l \in LogLevel : EqualIgnoringCase(levelIn, l)
          ELSE IF EqualIgnoringCase(levelIn, WARNING) THEN WARN
          ELSE IF EqualIgnoringCase(levelIn, ERR) THEN ERROR
          ELSE IF EqualIgnoringCase(levelIn, DBG) THEN DEBUG
          ELSE INFO

(* "warning" was normalized to WARN.                                       *)
C21_Witness ==
    /\ levelIn = << "w", "a", "r", "n", "i", "n", "g" >>
    /\ levelOut = WARN

(* ================= properties of the relay, continued ================== *)
(* The connections that took the source role without having been viewers. *)
RegisteredInGraceWindow ==
    { c \in Conns : clientType[c] = "SOURCE" /\ CountViewerWelcome(c) = 0 }

(* C22: a connection that registered as a source within the grace window   *)
(* has been sent exactly one WELCOME, with the role SOURCE and the colour   *)
(* of its source, and no SOURCES_LIST and no LOGS_BATCH.                    *)
C22_SourceHandshake ==
    \A c \in RegisteredInGraceWindow :
       /\ CountType(c, "WELCOME") = 1
       /\ CountType(c, "SOURCES_LIST") = 0
       /\ CountType(c, "LOGS_BATCH") = 0
       /\ \A i \in 1..Len(sent[c]) :
             sent[c][i].type = "WELCOME" =>
                /\ sent[c][i].payload.clientType = "SOURCE"
                /\ MapHas(clients, c) =>
                      sent[c][i].payload.color = MapGet(clients, c).source.color

(* C23: a registerSource call appends exactly one SOURCE_CONNECTED, with   *)
(* the id, the de-duplicated name and the assigned colour of the new       *)
(* source, to each other connection that is a viewer with an open socket,  *)
(* and no SOURCE_CONNECTED to anybody else.                                *)
C23_SourceConnectedOnce ==
    [][ Len(registered') = Len(registered) + 1 =>
          LET c == registered'[Len(registered')].from
              source == MapGet(clients', c).source
          IN  /\ source.name = registered'[Len(registered')].name
              /\ \A v \in Conns \ {c} :
                    IF v \in OpenViewerIds
                    THEN /\ sent'[v] = Append(sent[v],
                                         [ type |-> "SOURCE_CONNECTED",
                                           payload |-> sent'[v][Len(sent'[v])].payload ])
                         /\ sent'[v][Len(sent'[v])].payload.id = c
                         /\ sent'[v][Len(sent'[v])].payload.name = source.name
                         /\ sent'[v][Len(sent'[v])].payload.color = source.color
                    ELSE sent'[v] = sent[v]
              /\ \A k \in Len(sent[c]) + 1 .. Len(sent'[c]) :
                    sent'[c][k].type # "SOURCE_CONNECTED"
      ]_vars

(* A viewer was told of a source that asked for a and was named a-1.       *)
C23_Witness ==
    \E v \in OpenViewerIds : \E i \in 1..Len(registered) :
       /\ registered[i].payload.name = "a"
       /\ registered[i].name = "a-1"
       /\ Cardinality({ k \in 1..Len(sent[v]) :
             /\ sent[v][k].type = "SOURCE_CONNECTED"
             /\ sent[v][k].payload.id = registered[i].from
             /\ sent[v][k].payload.name = "a-1" }) = 1

(* C24: a registration that names a colour gets exactly that colour and    *)
(* leaves the palette index alone, whoever else has the colour; one that   *)
(* names none gets the palette entry at the index modulo the palette size  *)
(* and advances the index by one; no other step, a disconnect included,    *)
(* changes the index.                                                      *)
C24_ColorAssignment ==
    [][ IF Len(registered') = Len(registered) + 1
        THEN LET payload == registered'[Len(registered')].payload
                 c == registered'[Len(registered')].from
                 color == MapGet(clients', c).source.color
             IN  IF "color" \in DOMAIN payload
                 THEN /\ color = payload.color
                      /\ colorIndex' = colorIndex
                 ELSE /\ color = SOURCE_COLORS[(colorIndex % Len(SOURCE_COLORS)) + 1]
                      /\ colorIndex' = colorIndex + 1
        ELSE colorIndex' = colorIndex
      ]_vars

(* The palette has been gone round and two sources of the registry have   *)
(* one colour, one of them by preference.                                  *)
C24_Witness ==
    /\ colorIndex > Len(SOURCE_COLORS)
    /\ Len(registered) > 0
    /\ LET last == registered[Len(registered)]
       IN  /\ "color" \in DOMAIN last.payload
           /\ MapHas(clients, last.from)
           /\ MapGet(clients, last.from).source.color = last.payload.color
           /\ \E j \in 1..Len(clients) :
                 /\ clients[j].id # last.from
                 /\ clients[j].type = "SOURCE"
                 /\ clients[j].source.color = last.payload.color

(* C25: a list returned by getRecentLogs keeps the elements the buffer     *)
(* had at the call, whatever is appended or evicted afterwards, and the    *)
(* call leaves the buffer as it was.                                       *)
C25_SnapshotNotLive ==
    [][ /\ \A i \in 1..Len(snapshots') :
             ElementsOf(snapshots'[i].list, recentLogs') = snapshots'[i].taken
        /\ Len(snapshots') > Len(snapshots) => recentLogs' = recentLogs
      ]_vars

(* A non-empty snapshot was taken, and since then a record was appended    *)
(* and one of the snapshot's records was evicted.                          *)
C25_Witness ==
    \E i \in 1..Len(snapshots) :
       /\ snapshots[i].taken # << >>
       /\ Len(recentLogs) = bufferSize
       /\ snapshots[i].taken[1].id < recentLogs[1].id
       /\ snapshots[i].taken[Len(snapshots[i].taken)].id
             < recentLogs[Len(recentLogs)].id

(* ================ properties of the producer, continued ================ *)
(* The first socket could not be opened.                                   *)
FirstAttemptFailed ==
    /\ connects >= 1
    /\ ~(connects = 1 /\ wsReadyState = "CONNECTING")
    /\ \A i \in 1..Len(transmitted) : transmitted[i].conn # 1

RECURSIVE TransmittedOn(_, _)
TransmittedOn(tx, k) ==
    IF tx = << >> THEN << >>
    ELSE LET rest == TransmittedOn(SubSeq(tx, 1, Len(tx) - 1), k)
             last == tx[Len(tx)]
         IN  IF last.conn = k THEN Append(rest, last.message) ELSE rest

(* C27: the first message transmitted on each socket is SOURCE_REGISTER;   *)
(* a LOG is transmitted only on the current socket and only once WELCOME   *)
(* has been received on it; a line produced on a socket that has not been  *)
(* welcomed is put at the end of the send buffer and not transmitted.      *)
C27_RegisterFirst ==
    [][ /\ \A k \in 1..connects' :
             TransmittedOn(transmitted', k) # << >> =>
                TransmittedOn(transmitted', k)[1].type = "SOURCE_REGISTER"
        /\ \A i \in Len(transmitted) + 1 .. Len(transmitted') :
             transmitted'[i].message.type = "LOG" =>
                transmitted'[i].conn = connects' /\ welcomed'
        /\ (produced' = produced + 1 /\ ~welcomed) =>
              /\ transmitted' = transmitted
              /\ messageBuffer' # << >>
              /\ messageBuffer'[Len(messageBuffer')] = LogMessageOf(produced')
      ]_vars

(* A line was produced on a reopened socket after SOURCE_REGISTER was      *)
(* transmitted on it and before its WELCOME, and is waiting in the buffer. *)
C27_Witness ==
    /\ connects >= 2
    /\ wsReadyState = "OPEN"
    /\ ~welcomed
    /\ TransmittedOn(transmitted, connects) = << [ type |-> "SOURCE_REGISTER" ] >>
    /\ messageBuffer = << LogMessageOf(produced) >>
    /\ produced >= 1

(* ================= properties of the records, continued ================ *)
(* The entry processLog created with this id.                              *)
EntryOf(id) == processed[ArrivalOf(id)].entry

(* The record is the one created, in the buffer and in every message.      *)
RecordsUnmodified ==
    /\ \A i \in 1..Len(recentLogs) : recentLogs[i] = EntryOf(recentLogs[i].id)
    /\ \A c \in Conns : \A i \in 1..Len(sent[c]) :
          /\ sent[c][i].type = "LOG_BROADCAST" =>
                sent[c][i].payload = EntryOf(sent[c][i].payload.id)
          /\ sent[c][i].type = "LOGS_BATCH" =>
                \A k \in 1..Len(sent[c][i].payload.logs) :
                   sent[c][i].payload.logs[k] = EntryOf(sent[c][i].payload.logs[k].id)

(* C28: the entry created from a LOG message has the message's content    *)
(* and raw and, when the message has an originalTimestamp, that same       *)
(* originalTimestamp; the entry in the buffer and in every LOG_BROADCAST   *)
(* and LOGS_BATCH is the entry as created.                                 *)
C28_RecordCarriesLine ==
    /\ \A i \in 1..Len(processed) :
          LET payload == processed[i].payload
              entry == processed[i].entry
          IN  /\ entry.content = payload.content
              /\ entry.raw = payload.raw
              /\ "originalTimestamp" \in DOMAIN payload =>
                    /\ "originalTimestamp" \in DOMAIN entry
                    /\ entry.originalTimestamp = payload.originalTimestamp
    /\ RecordsUnmodified

(* ================ properties of the registry, continued ================ *)
(* C29: the names in usedSourceNames are exactly the names of the sources  *)
(* in the registry.                                                        *)
C29_ReservedNamesAreListed ==
    usedSourceNames = ListedNames(clients)

(* ================= properties of the viewers, continued ================ *)
(* The payloads of the LOG_BROADCASTs among these messages, in order.      *)
RECURSIVE BroadcastsIn(_)
BroadcastsIn(s) ==
    IF s = << >> THEN << >>
    ELSE LET rest == BroadcastsIn(SubSeq(s, 1, Len(s) - 1))
             last == s[Len(s)]
         IN  IF last.type = "LOG_BROADCAST" THEN Append(rest, last.payload) ELSE rest

(* The logs of the LOGS_BATCH among these messages.                        *)
BatchIn(s) ==
    LET i == CHOOSE i \in 1..Len(s) : s[i].type = "LOGS_BATCH"
    IN  s[i].payload.logs

IdsOf(entries) == { entries[i].id : i \in 1..Len(entries) }

(* C30: for a viewer with an open socket, the entries accepted so far      *)
(* split at one point of the arrival order: the LOGS_BATCH holds the       *)
(* entries that were in the buffer at that point (the last bufferSize of   *)
(* those before it) and the LOG_BROADCASTs are exactly the entries after   *)
(* it, each once and in order; no entry is in both.                        *)
C30_EveryRecordOnce ==
    \A v \in OpenViewerIds :
        LET live == BroadcastsIn(sent[v])
            before == Len(Accepted) - Len(live)
        IN  /\ CountType(v, "LOGS_BATCH") = 1
            /\ before >= 0
            /\ BatchIn(sent[v]) = LastN(SubSeq(Accepted, 1, before), bufferSize)
            /\ live = SubSeq(Accepted, before + 1, Len(Accepted))
            /\ IdsOf(BatchIn(sent[v])) \cap IdsOf(live) = {}

(* A viewer's batch holds an entry of a source that connected after the    *)
(* viewer did, so accepted during its grace window, and the viewer got a   *)
(* later entry as a broadcast.                                             *)
C30_Witness ==
    \E v \in OpenViewerIds :
        /\ \E i \in 1..Len(processed) :
              /\ processed[i].from > v
              /\ processed[i].entry.id \in IdsOf(BatchIn(sent[v]))
        /\ BroadcastsIn(sent[v]) # << >>

(* ============ properties of the message handler, continued ============= *)
(* The text decodes to an envelope of type LOG.                            *)
IsLogFrame(data) == branchOf(parseMessage(data).value) = "log"

(* C31: a LOG frame from a connection whose role is not source (not yet    *)
(* resolved, or viewer) leaves the replay buffer and the registry as they  *)
(* were, sends nothing to anybody and creates no entry.                    *)
C31_LogFromNonSourceIgnored ==
    [][ ( /\ Len(inbound') = Len(inbound) + 1
          /\ IsLogFrame(inbound'[Len(inbound')].data)
          /\ clientType[inbound'[Len(inbound')].from] # "SOURCE" ) =>
            /\ recentLogs' = recentLogs
            /\ processed' = processed
            /\ sent' = sent
            /\ clients' = clients
            /\ uncaught' = uncaught
      ]_vars

(* A viewer and a connection that is not yet resolved have each sent a     *)
(* well-formed LOG frame while a source was registered: nothing was        *)
(* accepted and nobody got a broadcast.                                    *)
C31_Witness ==
    \E v, u \in 1..HandlerConns :
       /\ clientType[v] = "VIEWER" /\ graceTimer[v] = "fired"
       /\ Len(inbound) = 3
       /\ inbound[1].data =
             serializeMessage(createSourceRegisterMessage(JStr("a"), undefined))
       /\ inbound[1].from = u
       /\ inbound[2] = [ from |-> v, data |->
             serializeMessage(createLogMessage(JStr("late"), JStr("09:00 late"),
                                               JStr("err"), undefined)) ]
       /\ inbound[3].from = v /\ IsLogFrame(inbound[3].data)
       /\ processed = << >>
       /\ recentLogs = << >>
       /\ \A c \in Conns : CountType(c, "LOG_BROADCAST") = 0

(* ================== properties of the relay, continued ================= *)
(* C32: a step that sends a LOG_BROADCAST, SOURCE_CONNECTED or             *)
(* SOURCE_DISCONNECTED to a connection finds that connection in the viewer *)
(* role and leaves it there; a connection that is not resolved or is a     *)
(* source is sent none of them.                                            *)
C32_BroadcastsToViewersOnly ==
    [][ \A c \in Conns :
          \A i \in Len(sent[c]) + 1 .. Len(sent'[c]) :
             sent'[c][i].type \in BroadcastTypes =>
                /\ clientType[c] = "VIEWER"
                /\ clientType'[c] = "VIEWER"
      ]_vars

(* A viewer was sent a SOURCE_CONNECTED and a LOG_BROADCAST while the      *)
(* source and a connection not yet resolved were open, and those two were  *)
(* sent neither.                                                           *)
C32_Witness ==
    \E v, s, u \in Conns :
       /\ v \in OpenViewerIds
       /\ CountType(v, "LOG_BROADCAST") >= 1
       /\ CountType(v, "SOURCE_CONNECTED") >= 1
       /\ clientType[s] = "SOURCE" /\ ws[s] = "OPEN"
       /\ clientType[u] = "null" /\ ws[u] = "OPEN"
       /\ \A t \in BroadcastTypes : CountType(s, t) = 0 /\ CountType(u, t) = 0

(* C33: the source of an entry is the name given by the last registration *)
(* of the sending connection, and no other source connected at that moment *)
(* has that name in the registry or was given it by its last registration. *)
C33_RecordNamesUnique ==
    [][ processed' # processed =>
          LET p == processed'[Len(processed')]
          IN  /\ LastRegistrationOf(p.from) # 0
              /\ p.entry.source = registered[LastRegistrationOf(p.from)].name
              /\ \A d \in ConnectedSourceIds \ { p.from } :
                    /\ MapGet(clients, d).source.name # p.entry.source
                    /\ registered[LastRegistrationOf(d)].name # p.entry.source
      ]_vars

(* Two connected sources both asked for the name a and both logged: their  *)
(* entries are named a and a-1.                                            *)
C33_Witness ==
    /\ Len(processed) = 2
    /\ processed[1].from # processed[2].from
    /\ processed[1].from \in ConnectedSourceIds
    /\ processed[2].from \in ConnectedSourceIds
    /\ AllRequest(registered, "a")
    /\ { processed[1].entry.source, processed[2].entry.source } = { "a", "a-1" }

(* ================ properties of the producer, continued ================ *)
(* C34: the lines handed to the transport are in sendLog call order, none  *)
(* twice; and a line that leaves the send buffer in a step is transmitted  *)
(* in that step or is the oldest line, pushed out by a sendLog call on a   *)
(* full buffer.                                                            *)
C34_NoLineLostOrRepeated ==
    [][ /\ \A i, j \in 1..Len(LinesOf(transmitted')) :
              i < j => LinesOf(transmitted')[i] < LinesOf(transmitted')[j]
        /\ \A i \in 1..Len(LinesOf(transmitted')) :
              LinesOf(transmitted')[i] \in 1..produced'
        /\ \A k \in 1..Len(messageBuffer) :
              (\A m \in 1..Len(messageBuffer') :
                  messageBuffer'[m].line # messageBuffer[k].line) =>
                 \/ \E i \in Len(transmitted) + 1 .. Len(transmitted') :
                       /\ transmitted'[i].message.type = "LOG"
                       /\ transmitted'[i].message.line = messageBuffer[k].line
                 \/ /\ produced' = produced + 1
                    /\ Len(messageBuffer) = MessageBufferLimit
                    /\ k = 1
      ]_vars

(* C35: once close() has been called no socket is created any more, not   *)
(* even by a reconnect timer that was pending when close() was called.     *)
C35_NoConnectAfterClose ==
    [][ ~shouldReconnect =>
          /\ connects' = connects
          /\ wsReadyState' = wsReadyState
          /\ ~shouldReconnect'
      ]_vars

(* close() was called in the backoff after a lost session, the reconnect   *)
(* timer still pending.                                                    *)
C35_Witness ==
    /\ ~shouldReconnect
    /\ reconnectTimer = "pending"
    /\ connects >= 1
    /\ connects < ProducerConnects

(* ==================== properties of the dashboard ====================== *)
(* The sources the store has as connected.                                 *)
ConnectedInStore == SelectSeq(storeSources, LAMBDA src : src.connected)

AsSet(seq) == { seq[i] : i \in 1..Len(seq) }

(* The dashboard's socket is open, the relay has made it a viewer and the  *)
(* dashboard has handled everything the relay sent on it.                  *)
CaughtUp ==
    /\ wsRef # 0
    /\ wsRef \in OpenViewerIds
    /\ delivered = Len(sent[wsRef])

(* C36: when the dashboard has handled every message sent to it on its     *)
(* open viewer socket, the sources its store has as connected are exactly  *)
(* the sources getSources returns, each once.                              *)
C36_StoreSourcesMatchRegistry ==
    CaughtUp =>
       /\ AsSet(ConnectedInStore) = AsSet(getSources(clients))
       /\ Len(ConnectedInStore) = Len(getSources(clients))

(* The dashboard has been told of two registrations and one disconnect     *)
(* after its roster and has handled them all: it has one source connected  *)
(* and one disconnected.                                                   *)
C36_Witness ==
    /\ CaughtUp
    /\ CountType(wsRef, "SOURCE_CONNECTED") >= 1
    /\ CountType(wsRef, "SOURCE_DISCONNECTED") = 1
    /\ Len(storeSources) = 2
    /\ Len(ConnectedInStore) = 1

(* C37: no two entries of the store's logs have the same id.               *)
C37_NoDuplicateIds ==
    \A i, j \in 1..Len(storeLogs) :
       i # j => storeLogs[i].id # storeLogs[j].id

====
